---- MODULE Spec2Model ----
(***************************************************************************)
(* A model of the CRUW backend (src/cruw-backend/index.js): an Express     *)
(* service over a MongoDB document store.  The state is the five stored    *)
(* collections, the server clock, the startup phase, the requests that are *)
(* between two awaits, the tokens clients hold and the last response sent. *)
(*                                                                         *)
(* A handler with a single storage call is one action: its effect on the   *)
(* store happens at that call.  The two handlers whose interleaving        *)
(* matters (signup: hash, then insert; completion summary: four queries)   *)
(* are split at their awaits and kept in `pending` between the steps.      *)
(***************************************************************************)
EXTENDS Integers, Sequences, FiniteSets, TLC

VARIABLES
    phase,              \* "starting" | "connected" | "listening" (startServer),
                        \* "closing" | "closed" (SIGINT handler), "exited"
    db,                 \* app.locals.db is set
    now,                \* the server clock, Date.now(), in milliseconds
    users,              \* collection 'users', in insertion order
    groups,             \* collection 'groups'
    habits,             \* collection 'habits'
    userHabitEntries,   \* collection 'userHabitEntries'
    groupHabitEntries,  \* collection 'groupHabitEntries'
    pending,            \* requests suspended at an await
    tokens,             \* tokens held by clients, each with its issue instant
    lastResp            \* the last response sent, with what its request did

vars == <<phase, db, now, users, groups, habits, userHabitEntries,
          groupHabitEntries, pending, tokens, lastResp>>

store == <<users, groups, habits, userHabitEntries, groupHabitEntries>>

-----------------------------------------------------------------------------
(* Bounds of the model *)

MaxUsers == 2
MaxGroups == 1
MaxHabits == 2
MaxUserEntries == 3
MaxGroupEntries == 2
MaxInflight == 2
MaxTokens == 1

-----------------------------------------------------------------------------
(* Program constants *)

ObjectIdLen == 24
saltRounds == 10
ExpiresInSec == 3600
MsPerSec == 1000
jwtSecret == "JWT_SECRET"

\* The instants the server clock is sampled at (milliseconds): around an issue
\* second and around one hour later.
ClockInstants == {900, 1000, 3600000, 3600900}

-----------------------------------------------------------------------------
(* Identifiers: ObjectId.isValid, new ObjectId(string), toHexString *)

LowerHex == <<"0","1","2","3","4","5","6","7","8","9","a","b","c","d","e","f">>
UpperHex == <<"0","1","2","3","4","5","6","7","8","9","A","B","C","D","E","F">>

HexChars == {LowerHex[i] : i \in 1..16} \cup {UpperHex[i] : i \in 1..16}

IsHexChar(c) == c \in HexChars

HexDigitVals ==
    [c \in HexChars |-> (CHOOSE i \in 1..16 : LowerHex[i] = c \/ UpperHex[i] = c) - 1]

HexDigitVal(c) == HexDigitVals[c]

\* ObjectId.isValid on a string: 24 hexadecimal characters.
AnyTextIsValid(s) == Len(s) > 0

TextIsValid(s) == Len(s) = ObjectIdLen /\ \A i \in 1..Len(s) : IsHexChar(s[i])

\* The number the first n hexadecimal digits of s denote.
RECURSIVE HexVal(_, _)
HexVal(s, n) ==
    IF n = 0 THEN 0 ELSE 16 * HexVal(s, n - 1) + HexDigitVal(s[n])

\* new ObjectId(s): the identifier is the number the text denotes; it throws
\* on a text that is not 24 hexadecimal characters.
TextThrows(s) == ~(Len(s) = ObjectIdLen /\ \A i \in 1..Len(s) : IsHexChar(s[i]))

TextToObjectId(s) == HexVal(s, Len(s))

\* ObjectId.prototype.toHexString (identifiers of the model are below 256).
toHexString(id) ==
    [i \in 1..ObjectIdLen |->
        IF i = ObjectIdLen THEN LowerHex[(id % 16) + 1]
        ELSE IF i = ObjectIdLen - 1 THEN LowerHex[((id \div 16) % 16) + 1]
        ELSE "0"]

\* The driver gives each inserted document a fresh _id, unique across
\* collections: here the collection's number and the document's rank in it.
CollNo(coll) ==
    CASE coll = "users" -> 1
      [] coll = "groups" -> 2
      [] coll = "habits" -> 3
      [] coll = "userHabitEntries" -> 4
      [] coll = "groupHabitEntries" -> 5

NewId(coll, docs) == 16 * CollNo(coll) + Len(docs) + 1

\* Identifier texts a client sends: texts of identifiers, and malformed texts.
ShortText == [i \in 1..(ObjectIdLen - 1) |-> "0"]
NonHexText == [i \in 1..ObjectIdLen |-> IF i = 1 THEN "g" ELSE "0"]
BadIdTexts == {ShortText, NonHexText}
EmptyText == <<>>

\* The identifier texts that occur in requests and tokens, with ObjectId.isValid
\* and new ObjectId worked out once for each of them.
IdTexts ==
    {toHexString(16 * c + n) : c \in 1..5, n \in 1..15} \cup BadIdTexts \cup {EmptyText}

IsValidOf == [s \in IdTexts |-> TextIsValid(s)]
ThrowsOf == [s \in IdTexts |-> TextThrows(s)]
ObjectIdOf == [s \in {t \in IdTexts : ~TextThrows(t)} |-> TextToObjectId(s)]

IsValid(s) == IsValidOf[s]
ObjectIdThrows(s) == ThrowsOf[s]
ObjectId(s) == ObjectIdOf[s]

-----------------------------------------------------------------------------
(* Passwords and tokens: bcrypt.genSalt/hash/compare, jwt.sign/verify *)

Emails == {"a@x.com", "b@x.com"}
Passwords == {"pw1", "pw2"}
Salts == {"salt1"}
Missing == ""

\* The bodies sent to POST /api/users: two accounts, a third that reuses the
\* first one's email, and bodies with one required field missing.
SignupBodies ==
    {[username |-> "ann", email |-> "a@x.com", password |-> "pw1"],
     [username |-> "bob", email |-> "b@x.com", password |-> "pw2"],
     [username |-> "bob", email |-> "a@x.com", password |-> "pw2"],
     [username |-> Missing, email |-> "a@x.com", password |-> "pw1"],
     [username |-> "ann", email |-> Missing, password |-> "pw1"],
     [username |-> "ann", email |-> "a@x.com", password |-> Missing]}

\* bcrypt.genSalt(saltRounds): the cost and the random salt, as text.
CostText(rounds) == IF rounds = 10 THEN "10" ELSE "??"

genSalt(rounds, salt) == "$2a$" \o CostText(rounds) \o "$" \o salt

\* bcrypt.hash(password, salt): a text that is not the password, determined
\* by the salt and the password.
bcryptHash(password, salt) == salt \o "$" \o password

\* bcrypt.compare(password, hash)
bcryptCompare(password, hash) ==
    \E s \in Salts : hash = bcryptHash(password, genSalt(saltRounds, s))

\* Math.floor(Date.now() / 1000)
ClockTimestamp(t) == t \div MsPerSec

\* jwt.sign(payload, secret, { expiresIn: '1h' })
jwtSign(payload, secret, t) ==
    [id |-> payload.id, username |-> payload.username,
     iat |-> ClockTimestamp(t), exp |-> ClockTimestamp(t) + ExpiresInSec,
     key |-> secret]

\* jwt.verify(token, secret): the signature, then the expiry.
jwtVerifyNoExpiry(token, secret, t) == token.key = secret

jwtVerify(token, secret, t) ==
    /\ token.key = secret
    /\ ClockTimestamp(t) < token.exp

\* A token that is no JWT at all.
GarbageToken ==
    [id |-> EmptyText, username |-> Missing, iat |-> 0, exp |-> 0, key |-> "none"]

\* A token this service signed for a user the store does not hold (any more).
StaleToken ==
    [id |-> toHexString(16 * CollNo("users") + 15), username |-> "gone", iat |-> 0,
     exp |-> ExpiresInSec + ExpiresInSec, key |-> jwtSecret]

\* The Authorization headers a client may send, as their words: none, a scheme
\* with no token, another scheme with a credential, and "Bearer <token>" for
\* garbage, a stale token, a held token and the same token signed with another
\* key.
AuthHeaders ==
    {<<>>, <<"Bearer">>, <<"Basic", GarbageToken>>, <<"Bearer", GarbageToken>>,
     <<"Bearer", StaleToken>>}
    \cup {<<"Bearer", t.tok>> : t \in tokens}
    \cup {<<"Bearer", [t.tok EXCEPT !.key = "attacker"]>> : t \in tokens}

-----------------------------------------------------------------------------
(* Responses *)

\* What a handler sends: res.status(status).json(body) or res.sendStatus(status).
Reply(status, body) == [status |-> status, body |-> body]

NoResp == [kind |-> "none", status |-> 0, ops |-> 0, failed |-> FALSE]

\* The last response, with what is known of its request: the number of storage
\* operations it issued, whether the store failed it, and the request's inputs.
Resp(kind, reply, ops, failed, req) ==
    [kind |-> kind, status |-> reply.status, body |-> reply.body, ops |-> ops,
     failed |-> failed, req |-> req]

NotConnected == Reply(500, [message |-> "Database not connected."])

StorageError == "storage failure"

-----------------------------------------------------------------------------
(* Startup *)

Init ==
    /\ phase = "starting"
    /\ db = FALSE
    /\ now = 900
    /\ users = <<>>
    /\ groups = <<>>
    /\ habits = <<>>
    /\ userHabitEntries = <<>>
    /\ groupHabitEntries = <<>>
    /\ pending = <<>>
    /\ tokens = {}
    /\ lastResp = NoResp

\* startServer: await client.connect() resolves; the ping is sent.
ClientConnect ==
    /\ phase = "starting"
    /\ phase' = "connected"
    /\ UNCHANGED <<db, now, store, pending, tokens, lastResp>>

\* startServer after the ping resolved: the handle is published, then listen.
StartServerListenFirst ==
    /\ phase \in {"starting", "connected"}
    /\ phase' = "listening"
    /\ UNCHANGED <<db, now, store, pending, tokens, lastResp>>

StartServerOk ==
    /\ phase = "connected"
    /\ db' = TRUE
    /\ phase' = "listening"
    /\ UNCHANGED <<now, store, pending, tokens, lastResp>>

\* startServer: connect or ping throws, process.exit(1).
StartServerFail ==
    /\ phase \in {"starting", "connected"}
    /\ phase' = "exited"
    /\ UNCHANGED <<db, now, store, pending, tokens, lastResp>>

\* SIGINT while the service listens: the handler starts and awaits
\* client.close(). The signal during startup is not modelled.
Sigint ==
    /\ phase = "listening"
    /\ phase' = "closing"
    /\ UNCHANGED <<db, now, store, pending, tokens, lastResp>>

\* client.close() takes effect: the shared connection is closed. app.locals.db
\* keeps its value.
ClientCloseSkipped ==
    /\ phase = "closing"
    /\ phase' = "exited"
    /\ UNCHANGED <<db, now, store, pending, tokens, lastResp>>

ClientClose ==
    /\ phase = "closing"
    /\ phase' = "closed"
    /\ UNCHANGED <<db, now, store, pending, tokens, lastResp>>

\* The await of client.close() resumes: process.exit(0). The requests in
\* flight stay where they are, for ever.
ProcessExit ==
    /\ phase = "closed"
    /\ phase' = "exited"
    /\ UNCHANGED <<db, now, store, pending, tokens, lastResp>>

\* Time passes.
Tick ==
    /\ \E t \in ClockInstants : t > now /\ now' = t
    /\ UNCHANGED <<phase, db, store, pending, tokens, lastResp>>

-----------------------------------------------------------------------------
(* Store helpers *)

\* collection.insertOne(document): the collection with the document added.
InsertOneOverLast(docs, doc) ==
    IF docs = <<>> THEN <<doc>> ELSE [docs EXCEPT ![Len(docs)] = doc]

InsertOne(docs, doc) == Append(docs, doc)

RemoveAt(seq, i) == SubSeq(seq, 1, i - 1) \o SubSeq(seq, i + 1, Len(seq))

\* find(filter).toArray() is SelectSeq(collection, filter): the documents that
\* satisfy the filter, in stored order; findOne is the first of them.

\* projection { password: 0 }
WithoutPasswordBad(doc) == doc

WithoutPassword(doc) == [f \in DOMAIN doc \ {"password"} |-> doc[f]]

\* The unique index on users.email: insertOne fails with a duplicate-key
\* error when a stored user has the email.
EmailIndexViolated(doc) == \E i \in DOMAIN users : users[i].email = doc.email

\* The unique index on groups.name.
NameIndexViolated(doc) == \E i \in DOMAIN groups : groups[i].name = doc.name

DuplicateKey == 11000
OtherError == 1

-----------------------------------------------------------------------------
(* POST /api/users *)

\* The catch block of signup: a duplicate-key error is a 409, any other a 500.
SignupCatchBad(code) ==
    Reply(500, [message |-> "Failed to create user.", error |-> StorageError])

SignupCatch(code) ==
    IF code = DuplicateKey
    THEN Reply(409, [message |-> "User with that email or username already exists."])
    ELSE Reply(500, [message |-> "Failed to create user.", error |-> StorageError])

\* userToInsert: the allow-listed fields, the hash, the server's clock.
UserToInsertPlain(newUserData, salt) ==
    [username |-> newUserData.username, email |-> newUserData.email,
     password |-> newUserData.password, createdAt |-> now]

UserToInsert(newUserData, salt) ==
    [username |-> newUserData.username, email |-> newUserData.email,
     password |-> bcryptHash(newUserData.password, genSalt(saltRounds, salt)),
     createdAt |-> now]

\* Up to the await of insertOne: the db check, the validation, the hashing.
SignupBegin(newUserData, salt) ==
    /\ phase = "listening"
    /\ IF ~db
       THEN /\ lastResp' = Resp("signup", NotConnected, 0, FALSE, newUserData)
            /\ UNCHANGED pending
       ELSE IF \/ newUserData.username = Missing
               \/ newUserData.email = Missing
               \/ newUserData.password = Missing
       THEN /\ lastResp' = Resp("signup",
                    Reply(400, [message |->
                        "Missing required user data (username, email, password)."]),
                    0, FALSE, newUserData)
            /\ UNCHANGED pending
       ELSE /\ Len(pending) < MaxInflight
            /\ pending' = Append(pending,
                    [kind |-> "signup", body |-> newUserData,
                     doc |-> UserToInsert(newUserData, salt)])
            /\ UNCHANGED lastResp
    /\ UNCHANGED <<phase, db, now, store, tokens>>

\* insertOne and the response, or the catch block.
SignupInsert(i, ok) ==
    /\ i \in DOMAIN pending
    /\ pending[i].kind = "signup"
    /\ pending' = RemoveAt(pending, i)
    /\ LET doc == pending[i].doc
           id == NewId("users", users)
       IN IF ~ok
          THEN /\ lastResp' = Resp("signup", SignupCatch(OtherError), 1, TRUE,
                                   pending[i].body)
               /\ UNCHANGED users
          ELSE IF EmailIndexViolated(doc)
          THEN /\ lastResp' = Resp("signup", SignupCatch(DuplicateKey), 1, FALSE,
                                   pending[i].body)
               /\ UNCHANGED users
          ELSE /\ Len(users) < MaxUsers
               /\ users' = InsertOne(users, [_id |-> id] @@ doc)
               /\ lastResp' = Resp("signup",
                      Reply(201, [message |-> "User created successfully!",
                                  insertedId |-> id, username |-> doc.username,
                                  email |-> doc.email]),
                      1, FALSE, pending[i].body)
    /\ UNCHANGED <<phase, db, now, groups, habits, userHabitEntries,
                   groupHabitEntries, tokens>>

-----------------------------------------------------------------------------
(* POST /api/auth/login *)

LoginNoUser == Reply(401, [message |-> "Invalid email or password."])

LoginBadPasswordLeaky == Reply(401, [message |-> "Wrong password."])

LoginBadPassword == Reply(401, [message |-> "Invalid email or password."])

\* The token's payload: { id: user._id, username: user.username }
TokenPayload(user) == [id |-> toHexString(user._id), username |-> user.username]

\* What the login handler answers in the current state.
LoginReply(email, password, ok) ==
    IF ~db THEN NotConnected
    ELSE IF email = Missing \/ password = Missing
    THEN Reply(400, [message |-> "Missing email or password."])
    ELSE IF ~ok
    THEN Reply(500, [message |-> "An error occurred during login.",
                     error |-> StorageError])
    ELSE LET found == SelectSeq(users, LAMBDA u : u.email = email)
         IN IF found = <<>> THEN LoginNoUser
            ELSE IF ~bcryptCompare(password, found[1].password) THEN LoginBadPassword
            ELSE Reply(200, [message |-> "Login successful!",
                             token |-> jwtSign(TokenPayload(found[1]), jwtSecret, now)])

Login(email, password, ok) ==
    /\ phase = "listening"
    /\ LET reply == LoginReply(email, password, ok)
           ops == IF ~db \/ email = Missing \/ password = Missing THEN 0 ELSE 1
       IN /\ lastResp' = Resp("login", reply, ops, ops = 1 /\ ~ok,
                              [email |-> email, password |-> password])
          /\ tokens' = IF reply.status = 200 /\ Cardinality(tokens) < MaxTokens
                       THEN tokens \cup {[tok |-> reply.body.token, at |-> now]}
                       ELSE tokens
    /\ UNCHANGED <<phase, db, now, store, pending>>

-----------------------------------------------------------------------------
(* GET /api/auth/status *)

\* authHeader && authHeader.split(' ')[1]
BearerTokenBad(header) == IF Len(header) >= 1 THEN <<GarbageToken>> ELSE <<>>

BearerToken(header) == IF Len(header) >= 2 THEN <<header[2]>> ELSE <<>>

\* The number of storage operations the status handler issues.
AuthStatusOps(header) ==
    LET token == BearerToken(header)
    IN IF token = <<>> THEN 0
       ELSE IF ~jwtVerify(token[1], jwtSecret, now) THEN 0
       ELSE IF ~db \/ ~IsValid(token[1].id) THEN 0
       ELSE 1

\* What the status handler answers in the current state.
AuthStatusReplyRevoked(header, ok) ==
    LET token == BearerToken(header)
    IN IF token = <<>> THEN Reply(401, [text |-> "Unauthorized"])
       ELSE IF ~jwtVerify(token[1], jwtSecret, now) \/ lastResp.kind = "logout"
       THEN Reply(403, [text |-> "Forbidden"])
       ELSE IF ~db THEN Reply(500, [text |-> "Internal Server Error"])
       ELSE IF ~IsValid(token[1].id) \/ ~ok
       THEN Reply(500, [text |-> "Internal Server Error"])
       ELSE LET found == SelectSeq(users, LAMBDA u : u._id = ObjectId(token[1].id))
            IN IF found = <<>> THEN Reply(404, [text |-> "Not Found"])
               ELSE Reply(200, [isAuthenticated |-> TRUE,
                                user |-> WithoutPassword(found[1])])

AuthStatusReply(header, ok) ==
    LET token == BearerToken(header)
    IN IF token = <<>> THEN Reply(401, [text |-> "Unauthorized"])
       ELSE IF ~jwtVerify(token[1], jwtSecret, now)
       THEN Reply(403, [text |-> "Forbidden"])
       ELSE IF ~db THEN Reply(500, [text |-> "Internal Server Error"])
       ELSE IF ~IsValid(token[1].id) \/ ~ok
       THEN Reply(500, [text |-> "Internal Server Error"])
       ELSE LET found == SelectSeq(users, LAMBDA u : u._id = ObjectId(token[1].id))
            IN IF found = <<>> THEN Reply(404, [text |-> "Not Found"])
               ELSE Reply(200, [isAuthenticated |-> TRUE,
                                user |-> WithoutPassword(found[1])])

AuthStatus(header, ok) ==
    /\ phase = "listening"
    /\ lastResp' = Resp("status", AuthStatusReply(header, ok), AuthStatusOps(header),
                        AuthStatusOps(header) = 1 /\ ~ok, [header |-> header, at |-> now])
    /\ UNCHANGED <<phase, db, now, store, pending, tokens>>

-----------------------------------------------------------------------------
(* POST /api/auth/logout *)

\* The handler only acknowledges.
LogoutRevoking ==
    /\ phase = "listening"
    /\ lastResp' = Resp("logout",
            Reply(200, [message |-> "Logout successful (client-side token discarded)."]),
            1, FALSE, [none |-> TRUE])
    /\ tokens' = {}
    /\ UNCHANGED <<phase, db, now, store, pending>>

Logout ==
    /\ phase = "listening"
    /\ lastResp' = Resp("logout",
            Reply(200, [message |-> "Logout successful (client-side token discarded)."]),
            0, FALSE, [none |-> TRUE])
    /\ UNCHANGED <<phase, db, now, store, pending, tokens>>

-----------------------------------------------------------------------------
(* Dates: new Date(text), setUTCHours, and the BSON encoding of a Date *)

DayMs == 86400000

\* The time value of an invalid Date.
NaN == -1

\* A date text is given by what it denotes: a day (counted from the epoch)
\* and the milliseconds into it, or nothing a Date can be parsed from.
IsoText(day, ms) == [day |-> day, ms |-> ms, form |-> "iso"]
GarbageText == [day |-> 0, ms |-> 0, form |-> "garbage"]
NoDateText == [day |-> 0, ms |-> 0, form |-> "empty"]

\* new Date(text): the time value, NaN for an unparseable text (no exception).
NewDate(text) == IF text.form = "iso" THEN text.day * DayMs + text.ms ELSE NaN

\* setUTCHours(0, 0, 0, 0) and setUTCHours(23, 59, 59, 999): no effect on NaN.
StartOfDay(t) == IF t = NaN THEN NaN ELSE t - (t % DayMs)
EndOfDayNextMidnight(t) == IF t = NaN THEN NaN ELSE t - (t % DayMs) + DayMs

EndOfDay(t) == IF t = NaN THEN NaN ELSE t - (t % DayMs) + (DayMs - 1)

\* The driver writes a Date as its time value, an invalid Date as 0.
BsonDate(t) == IF t = NaN THEN 0 ELSE t

\* { date: { $gte: startOfDay, $lte: endOfDay } } for the day of a date text.
OnDay(entry, text) ==
    /\ entry.date >= BsonDate(StartOfDay(NewDate(text)))
    /\ entry.date <= BsonDate(EndOfDay(NewDate(text)))

-----------------------------------------------------------------------------
(* Request bodies *)

U(n) == toHexString(16 * CollNo("users") + n)
G(n) == toHexString(16 * CollNo("groups") + n)
H(n) == toHexString(16 * CollNo("habits") + n)

Undefined == "undefined"

\* A field of a JSON body, undefined when absent.
Field(body, f) == IF f \in DOMAIN body THEN body[f] ELSE Undefined

\* The value a client may put in createdAt.
ClientCreatedAt == 5

HabitBodies ==
    {[title |-> "run", createdBy |-> U(1), schedule |-> "daily",
      assignedTo |-> [type |-> "group", id |-> G(1)]],
     [title |-> "read", createdBy |-> U(1), schedule |-> "daily",
      assignedTo |-> [type |-> "user", id |-> U(1)], createdAt |-> ClientCreatedAt],
     [title |-> Missing, createdBy |-> U(1), schedule |-> "daily",
      assignedTo |-> [type |-> "group", id |-> G(1)]],
     [title |-> "run", createdBy |-> U(1), schedule |-> "daily",
      assignedTo |-> [type |-> Missing, id |-> G(1)]],
     [title |-> "run", createdBy |-> NonHexText, schedule |-> "daily",
      assignedTo |-> [type |-> "group", id |-> G(1)]]}

GroupBodies ==
    {[name |-> "crew", ownerId |-> U(1)],
     [name |-> "crew", ownerId |-> U(1), description |-> "rowing",
      memberIds |-> <<U(1), U(2)>>],
     [name |-> "crew", ownerId |-> U(1), memberIds |-> <<U(2)>>],
     [name |-> "crew", ownerId |-> U(1), memberIds |-> <<>>],
     [name |-> "crew", ownerId |-> U(1), memberIds |-> <<U(1), ShortText>>],
     [name |-> Missing, ownerId |-> U(1)],
     [name |-> "crew", ownerId |-> NonHexText]}

DateTexts == {IsoText(1, 0), IsoText(2, 0), GarbageText}

UserEntryBodies ==
    {[habitId |-> H(n), userId |-> U(1), date |-> IsoText(1, 0), status |-> "done"] :
        n \in {1, 2, 3}}
    \cup {[habitId |-> H(1), userId |-> U(2), date |-> IsoText(1, 0), status |-> "done"],
          [habitId |-> H(1), userId |-> U(1), date |-> GarbageText, status |-> "done"],
          [habitId |-> H(1), userId |-> U(1), date |-> NoDateText, status |-> "done"],
          [habitId |-> ShortText, userId |-> U(1), date |-> IsoText(1, 0),
           status |-> "done"]}

GroupEntryBodies ==
    {[habitId |-> H(1), groupId |-> G(1), date |-> IsoText(1, 0),
      checkedBy |-> <<U(1)>>],
     [habitId |-> H(1), groupId |-> G(1), date |-> IsoText(2, 0)],
     [habitId |-> H(1), groupId |-> G(1), date |-> NoDateText],
     [habitId |-> H(1), groupId |-> NonHexText, date |-> IsoText(1, 0)],
     [habitId |-> H(1), groupId |-> G(1), date |-> IsoText(1, 0),
      checkedBy |-> <<NonHexText>>]}

\* Log entries around the bounds of day 1: its first and last millisecond, the
\* last millisecond of the day before, the first of the day after, and a date
\* that is no date text.
DayEntryDates ==
    {IsoText(1, 0), IsoText(1, DayMs - 1), IsoText(0, DayMs - 1), IsoText(2, 0),
     GarbageText}

DayUserEntryBodies ==
    {[habitId |-> H(1), userId |-> U(1), date |-> d, status |-> "done"] :
        d \in DayEntryDates}

DayGroupEntryBodies ==
    {[habitId |-> H(1), groupId |-> G(1), date |-> d, checkedBy |-> <<U(1)>>] :
        d \in DayEntryDates}

\* The :userId and :groupId path parameters a client may send.
UserIdParams == {U(n) : n \in 1..MaxUsers} \cup BadIdTexts
GroupIdParams == {G(n) : n \in 1..(MaxGroups + 1)} \cup BadIdTexts

-----------------------------------------------------------------------------
(* POST /api/habits *)

\* habitToInsert: the body spread first, then the converted references and
\* the server's clock over it.
HabitToInsertClientFirst(newHabitData) ==
    newHabitData @@
    [createdBy |-> ObjectId(newHabitData.createdBy),
     assignedTo |-> [type |-> newHabitData.assignedTo.type,
                     id |-> ObjectId(newHabitData.assignedTo.id)],
     createdAt |-> now]

HabitToInsert(newHabitData) ==
    [createdBy |-> ObjectId(newHabitData.createdBy),
     assignedTo |-> [type |-> newHabitData.assignedTo.type,
                     id |-> ObjectId(newHabitData.assignedTo.id)],
     createdAt |-> now] @@ newHabitData

CreateHabit(newHabitData, ok) ==
    /\ phase = "listening"
    /\ LET req == [body |-> newHabitData, at |-> now]
           id == NewId("habits", habits)
       IN IF ~db
          THEN lastResp' = Resp("habit", NotConnected, 0, FALSE, req) /\ UNCHANGED habits
          ELSE IF \/ newHabitData.title = Missing
                  \/ newHabitData.createdBy = EmptyText
                  \/ "assignedTo" \notin DOMAIN newHabitData
                  \/ newHabitData.schedule = Missing
          THEN /\ lastResp' = Resp("habit",
                      Reply(400, [message |->
                          "Missing required habit data (title, createdBy, assignedTo, or schedule)."]),
                      0, FALSE, req)
               /\ UNCHANGED habits
          ELSE IF \/ newHabitData.assignedTo.type = Missing
                  \/ newHabitData.assignedTo.id = EmptyText
          THEN /\ lastResp' = Resp("habit",
                      Reply(400, [message |-> "Invalid assignedTo format."]),
                      0, FALSE, req)
               /\ UNCHANGED habits
          ELSE IF \/ ~IsValid(newHabitData.createdBy)
                  \/ ~IsValid(newHabitData.assignedTo.id)
          THEN /\ lastResp' = Resp("habit",
                      Reply(400, [message |->
                          "Invalid ID format for createdBy or assignedTo.id."]),
                      0, FALSE, req)
               /\ UNCHANGED habits
          ELSE IF \/ ObjectIdThrows(newHabitData.createdBy)
                  \/ ObjectIdThrows(newHabitData.assignedTo.id)
          THEN /\ lastResp' = Resp("habit",
                      Reply(500, [message |-> "Failed to create habit.",
                                  error |-> "BSONError"]), 0, FALSE, req)
               /\ UNCHANGED habits
          ELSE IF ~ok
          THEN /\ lastResp' = Resp("habit",
                      Reply(500, [message |-> "Failed to create habit.",
                                  error |-> StorageError]), 1, TRUE, req)
               /\ UNCHANGED habits
          ELSE /\ Len(habits) < MaxHabits
               /\ habits' = InsertOne(habits, [_id |-> id] @@ HabitToInsert(newHabitData))
               /\ lastResp' = Resp("habit",
                      Reply(201, [message |-> "Habit created successfully!",
                                  insertedId |-> id,
                                  insertedHabit |->
                                      [_id |-> id] @@ HabitToInsert(newHabitData)]),
                      1, FALSE, req)
    /\ UNCHANGED <<phase, db, now, users, groups, userHabitEntries,
                   groupHabitEntries, pending, tokens>>

-----------------------------------------------------------------------------
(* POST /api/groups *)

MapObjectId(texts) == [i \in DOMAIN texts |-> ObjectId(texts[i])]

\* memberIds of groupToInsert: the provided list converted, else the owner.
MemberIdsOwnerAdded(newGroupData) ==
    IF "memberIds" \in DOMAIN newGroupData
    THEN <<ObjectId(newGroupData.ownerId)>> \o MapObjectId(newGroupData.memberIds)
    ELSE <<ObjectId(newGroupData.ownerId)>>

MemberIds(newGroupData) ==
    IF "memberIds" \in DOMAIN newGroupData
    THEN MapObjectId(newGroupData.memberIds)
    ELSE <<ObjectId(newGroupData.ownerId)>>

GroupToInsertSpread(newGroupData) ==
    [name |-> newGroupData.name,
     description |-> Field(newGroupData, "description"),
     ownerId |-> ObjectId(newGroupData.ownerId),
     memberIds |-> MemberIds(newGroupData),
     createdAt |-> now] @@ newGroupData

GroupToInsert(newGroupData) ==
    [name |-> newGroupData.name,
     description |-> Field(newGroupData, "description"),
     ownerId |-> ObjectId(newGroupData.ownerId),
     memberIds |-> MemberIds(newGroupData),
     createdAt |-> now]

\* Building groupToInsert throws when a provided memberId is malformed: the
\* conversion comes before the loop that validates the memberIds.
GroupToInsertThrows(newGroupData) ==
    /\ "memberIds" \in DOMAIN newGroupData
    /\ \E i \in DOMAIN newGroupData.memberIds :
          ObjectIdThrows(newGroupData.memberIds[i])

\* The catch block of group creation.
GroupCatch(code) ==
    IF code = DuplicateKey
    THEN Reply(409, [message |-> "Group name already exists."])
    ELSE Reply(500, [message |-> "Failed to create group.", error |-> StorageError])

CreateGroup(newGroupData, ok) ==
    /\ phase = "listening"
    /\ LET req == [body |-> newGroupData, at |-> now]
           id == NewId("groups", groups)
       IN IF ~db
          THEN lastResp' = Resp("group", NotConnected, 0, FALSE, req) /\ UNCHANGED groups
          ELSE IF newGroupData.name = Missing \/ newGroupData.ownerId = EmptyText
          THEN /\ lastResp' = Resp("group",
                      Reply(400, [message |->
                          "Missing required group data (name, ownerId)."]),
                      0, FALSE, req)
               /\ UNCHANGED groups
          ELSE IF ~IsValid(newGroupData.ownerId)
          THEN /\ lastResp' = Resp("group",
                      Reply(400, [message |-> "Invalid ownerId format"]), 0, FALSE, req)
               /\ UNCHANGED groups
          ELSE IF ObjectIdThrows(newGroupData.ownerId) \/ GroupToInsertThrows(newGroupData)
          THEN /\ lastResp' = Resp("group", GroupCatch(OtherError), 0, FALSE, req)
               /\ UNCHANGED groups
          ELSE IF ~ok
          THEN /\ lastResp' = Resp("group", GroupCatch(OtherError), 1, TRUE, req)
               /\ UNCHANGED groups
          ELSE IF NameIndexViolated(GroupToInsert(newGroupData))
          THEN /\ lastResp' = Resp("group", GroupCatch(DuplicateKey), 1, FALSE, req)
               /\ UNCHANGED groups
          ELSE /\ Len(groups) < MaxGroups
               /\ groups' = InsertOne(groups, [_id |-> id] @@ GroupToInsert(newGroupData))
               /\ lastResp' = Resp("group",
                      Reply(201, [message |-> "Group created successfully!",
                                  insertedId |-> id,
                                  insertedGroup |->
                                      [_id |-> id] @@ GroupToInsert(newGroupData)]),
                      1, FALSE, req)
    /\ UNCHANGED <<phase, db, now, users, habits, userHabitEntries,
                   groupHabitEntries, pending, tokens>>

-----------------------------------------------------------------------------
(* POST /api/userHabitEntries and POST /api/groupHabitEntries *)

UserEntryToInsert(newEntryData) ==
    [habitId |-> ObjectId(newEntryData.habitId),
     userId |-> ObjectId(newEntryData.userId),
     date |-> NewDate(newEntryData.date),
     status |-> newEntryData.status,
     notes |-> Field(newEntryData, "notes")]

\* The document as the store holds it.
Stored(id, doc) == [_id |-> id] @@ [doc EXCEPT !.date = BsonDate(doc.date)]

CreateUserEntry(newEntryData, ok) ==
    /\ phase = "listening"
    /\ LET req == [body |-> newEntryData]
           id == NewId("userHabitEntries", userHabitEntries)
       IN IF ~db
          THEN /\ lastResp' = Resp("userEntry", NotConnected, 0, FALSE, req)
               /\ UNCHANGED userHabitEntries
          ELSE IF \/ newEntryData.habitId = EmptyText
                  \/ newEntryData.userId = EmptyText
                  \/ newEntryData.date.form = "empty"
                  \/ newEntryData.status = Missing
          THEN /\ lastResp' = Resp("userEntry",
                      Reply(400, [message |->
                          "Missing required entry data (habitId, userId, date, or status)."]),
                      0, FALSE, req)
               /\ UNCHANGED userHabitEntries
          ELSE IF ~IsValid(newEntryData.habitId) \/ ~IsValid(newEntryData.userId)
          THEN /\ lastResp' = Resp("userEntry",
                      Reply(400, [message |-> "Invalid ID format for habitId or userId."]),
                      0, FALSE, req)
               /\ UNCHANGED userHabitEntries
          ELSE IF ObjectIdThrows(newEntryData.habitId) \/ ObjectIdThrows(newEntryData.userId)
          THEN /\ lastResp' = Resp("userEntry",
                      Reply(500, [message |-> "Failed to create user habit entry.",
                                  error |-> "BSONError"]), 0, FALSE, req)
               /\ UNCHANGED userHabitEntries
          ELSE IF ~ok
          THEN /\ lastResp' = Resp("userEntry",
                      Reply(500, [message |-> "Failed to create user habit entry.",
                                  error |-> StorageError]), 1, TRUE, req)
               /\ UNCHANGED userHabitEntries
          ELSE /\ Len(userHabitEntries) < MaxUserEntries
               /\ userHabitEntries' =
                      InsertOne(userHabitEntries, Stored(id, UserEntryToInsert(newEntryData)))
               /\ lastResp' = Resp("userEntry",
                      Reply(201, [message |-> "User habit entry created successfully!",
                                  insertedId |-> id,
                                  insertedEntry |->
                                      [_id |-> id] @@ UserEntryToInsert(newEntryData)]),
                      1, FALSE, req)
    /\ UNCHANGED <<phase, db, now, users, groups, habits, groupHabitEntries,
                   pending, tokens>>

GroupEntryToInsert(newEntryData) ==
    [habitId |-> ObjectId(newEntryData.habitId),
     groupId |-> ObjectId(newEntryData.groupId),
     date |-> NewDate(newEntryData.date),
     checkedBy |-> IF "checkedBy" \in DOMAIN newEntryData
                   THEN MapObjectId(newEntryData.checkedBy)
                   ELSE <<>>,
     notes |-> IF "notes" \in DOMAIN newEntryData THEN newEntryData.notes ELSE <<>>]

CreateGroupEntry(newEntryData, ok) ==
    /\ phase = "listening"
    /\ LET req == [body |-> newEntryData]
           id == NewId("groupHabitEntries", groupHabitEntries)
       IN IF ~db
          THEN /\ lastResp' = Resp("groupEntry", NotConnected, 0, FALSE, req)
               /\ UNCHANGED groupHabitEntries
          ELSE IF \/ newEntryData.habitId = EmptyText
                  \/ newEntryData.groupId = EmptyText
                  \/ newEntryData.date.form = "empty"
          THEN /\ lastResp' = Resp("groupEntry",
                      Reply(400, [message |->
                          "Missing required entry data (habitId, groupId, or date)."]),
                      0, FALSE, req)
               /\ UNCHANGED groupHabitEntries
          ELSE IF ~IsValid(newEntryData.habitId) \/ ~IsValid(newEntryData.groupId)
          THEN /\ lastResp' = Resp("groupEntry",
                      Reply(400, [message |-> "Invalid ID format for habitId or groupId."]),
                      0, FALSE, req)
               /\ UNCHANGED groupHabitEntries
          ELSE IF /\ "checkedBy" \in DOMAIN newEntryData
                  /\ \E k \in DOMAIN newEntryData.checkedBy :
                        ~IsValid(newEntryData.checkedBy[k])
          THEN /\ lastResp' = Resp("groupEntry",
                      Reply(400, [message |-> "Invalid checkedBy ID format"]),
                      0, FALSE, req)
               /\ UNCHANGED groupHabitEntries
          ELSE IF \/ ObjectIdThrows(newEntryData.habitId)
                  \/ ObjectIdThrows(newEntryData.groupId)
                  \/ /\ "checkedBy" \in DOMAIN newEntryData
                     /\ \E k \in DOMAIN newEntryData.checkedBy :
                           ObjectIdThrows(newEntryData.checkedBy[k])
          THEN /\ lastResp' = Resp("groupEntry",
                      Reply(500, [message |-> "Failed to create group habit entry.",
                                  error |-> "BSONError"]), 0, FALSE, req)
               /\ UNCHANGED groupHabitEntries
          ELSE IF ~ok
          THEN /\ lastResp' = Resp("groupEntry",
                      Reply(500, [message |-> "Failed to create group habit entry.",
                                  error |-> StorageError]), 1, TRUE, req)
               /\ UNCHANGED groupHabitEntries
          ELSE /\ Len(groupHabitEntries) < MaxGroupEntries
               /\ groupHabitEntries' =
                      InsertOne(groupHabitEntries, Stored(id, GroupEntryToInsert(newEntryData)))
               /\ lastResp' = Resp("groupEntry",
                      Reply(201, [message |-> "Group habit entry created successfully!",
                                  insertedId |-> id,
                                  insertedEntry |->
                                      [_id |-> id] @@ GroupEntryToInsert(newEntryData)]),
                      1, FALSE, req)
    /\ UNCHANGED <<phase, db, now, users, groups, habits, userHabitEntries,
                   pending, tokens>>

-----------------------------------------------------------------------------
(* The list and lookup endpoints: one filtered query each *)

\* A GET handler with one path identifier: the db check, the identifier's
\* validation, then `query`, the handler's storage call and its answer.
GetById(kind, idText, req, ok, missing, noun, failure, query) ==
    /\ phase = "listening"
    /\ IF ~db THEN lastResp' = Resp(kind, NotConnected, 0, FALSE, req)
       ELSE IF idText = EmptyText
       THEN lastResp' = Resp(kind, Reply(400, [message |-> "Missing " \o missing \o " in parameters."]),
                             0, FALSE, req)
       ELSE IF ~IsValid(idText)
       THEN lastResp' = Resp(kind, Reply(400, [message |-> "Invalid " \o noun \o " ID format."]),
                             0, FALSE, req)
       ELSE IF ObjectIdThrows(idText)
       THEN lastResp' = Resp(kind, Reply(500, [message |-> failure, error |-> "BSONError"]),
                             0, FALSE, req)
       ELSE IF ~ok
       THEN lastResp' = Resp(kind, Reply(500, [message |-> failure,
                                               error |-> StorageError]), 1, TRUE, req)
       ELSE lastResp' = Resp(kind, query, 1, FALSE, req)
    /\ UNCHANGED <<phase, db, now, store, pending, tokens>>

\* GET /api/users/:userId/habits
GetUserHabits(userId, ok) ==
    GetById("userHabits", userId, [id |-> userId], ok, "user ID", "user",
        "Failed to fetch personal habits.",
        Reply(200, SelectSeq(habits, LAMBDA h :
            \/ h.createdBy = ObjectId(userId)
            \/ (h.assignedTo.id = ObjectId(userId) /\ h.assignedTo.type = "user"))))

\* GET /api/users/:userId/groups
GetUserGroups(userId, ok) ==
    GetById("userGroups", userId, [id |-> userId], ok, "user ID", "user",
        "Failed to fetch user groups.",
        Reply(200, SelectSeq(groups, LAMBDA g :
            \E k \in DOMAIN g.memberIds : g.memberIds[k] = ObjectId(userId))))

\* GET /api/groups/:groupId/habits
GroupHabitsOfAll(groupObjectId) == habits

GroupHabits(groupObjectId) ==
    SelectSeq(habits, LAMBDA h :
        h.assignedTo.type = "group" /\ h.assignedTo.id = groupObjectId)

GetGroupHabits(groupId, ok) ==
    GetById("groupHabits", groupId, [id |-> groupId], ok, "group ID", "group",
        "Failed to fetch group habits.",
        Reply(200, GroupHabits(ObjectId(groupId))))

\* GET /api/users/:userId/habitEntries/:date
GetUserEntries(userId, dateString, ok) ==
    GetById("userEntries", userId, [id |-> userId, date |-> dateString], ok,
        "user ID or date", "user",
        "Failed to fetch user habit entries.",
        Reply(200, SelectSeq(userHabitEntries, LAMBDA e :
            e.userId = ObjectId(userId) /\ OnDay(e, dateString))))

\* GET /api/groups/:groupId/habitEntries/:date
GroupEntriesOnDay(groupObjectId, dateString) ==
    SelectSeq(groupHabitEntries, LAMBDA e :
        e.groupId = groupObjectId /\ OnDay(e, dateString))

GetGroupEntries(groupId, dateString, ok) ==
    GetById("groupEntries", groupId, [id |-> groupId, date |-> dateString], ok,
        "group ID or date", "group",
        "Failed to fetch group habit entries.",
        Reply(200, GroupEntriesOnDay(ObjectId(groupId), dateString)))

\* GET /api/users/:userId/createdAt
UserCreatedAtReply(userId) ==
    LET found == SelectSeq(users, LAMBDA u : u._id = ObjectId(userId))
    IN IF found # <<>> THEN Reply(200, [createdAt |-> found[1].createdAt])
       ELSE Reply(404, [message |-> "User not found."])

GetUserCreatedAt(userId, ok) ==
    GetById("userCreatedAt", userId, [id |-> userId], ok, "user ID", "user",
        "Failed to fetch user creation date.", UserCreatedAtReply(userId))

-----------------------------------------------------------------------------
(* GET /api/users/:userId/mostLoggedHabit *)

\* $match and $group: one row per habitId of the user's entries, with its count.
GroupedByHabit(userObjectId) ==
    LET matched == {i \in DOMAIN userHabitEntries :
                       userHabitEntries[i].userId = userObjectId}
    IN {[_id |-> h,
         count |-> Cardinality({i \in matched : userHabitEntries[i].habitId = h})] :
          h \in {userHabitEntries[i].habitId : i \in matched}}

\* $lookup and $unwind: a row for each stored habit the row's _id matches; a
\* row that matches none is dropped.
JoinedWithHabitKeepingAll(rows) ==
    {[count |-> r.count, habitDetails |-> habits[k]] :
        <<r, k>> \in {x \in rows \X DOMAIN habits : habits[x[2]]._id = x[1]._id}}
    \cup {[count |-> r.count,
           habitDetails |-> [_id |-> r._id, title |-> Missing, createdAt |-> 0]] :
            r \in {x \in rows : \A k \in DOMAIN habits : habits[k]._id # x._id}}

JoinedWithHabit(rows) ==
    {[count |-> r.count, habitDetails |-> habits[k]] :
        <<r, k>> \in {x \in rows \X DOMAIN habits : habits[x[2]]._id = x[1]._id}}

\* $sort: { count: -1, 'habitDetails.createdAt': 1 }
SortsBeforeNewestFirst(a, b) ==
    \/ a.count > b.count
    \/ a.count = b.count /\ a.habitDetails.createdAt > b.habitDetails.createdAt

SortsBefore(a, b) ==
    \/ a.count > b.count
    \/ a.count = b.count /\ a.habitDetails.createdAt < b.habitDetails.createdAt

\* $limit: 1 of the sorted rows: a row no other row sorts before (the order of
\* rows equal in both keys is the store's choice).
FirstRows(rows) == {r \in rows : \A o \in rows : ~SortsBefore(o, r)}

\* $project
ProjectTop(r) ==
    [_id |-> r.habitDetails._id, title |-> r.habitDetails.title,
     completionCount |-> r.count]

\* The results the pipeline may return for a user: at most one document.
MostLoggedResults(userId) ==
    IF ObjectIdThrows(userId) THEN {}
    ELSE {ProjectTop(r) :
            r \in FirstRows(JoinedWithHabit(GroupedByHabit(ObjectId(userId))))}

NoRow == [_id |-> 0, title |-> Missing, completionCount |-> 0]

MostLoggedHabit(userId, result, ok) ==
    /\ IF MostLoggedResults(userId) = {} THEN result = NoRow
       ELSE result \in MostLoggedResults(userId)
    /\ GetById("mostLogged", userId, [id |-> userId], ok, "user ID", "user",
           "Failed to fetch most logged habit.",
           IF result # NoRow THEN Reply(200, result)
           ELSE Reply(404, [message |-> "No logged habits found for this user."]))

-----------------------------------------------------------------------------
(* GET /api/groups/:groupId/members/completion/:date *)

\* Step 5 and 6 of the handler: the distinct habits per entry.userId, then each
\* member with its counts.  Reading userId of an entry that has none throws a
\* TypeError, which the catch block answers as an invalid date.
CompletionReply(members, totalGroupHabits, completedEntries) ==
    IF \E k \in DOMAIN completedEntries : "userId" \notin DOMAIN completedEntries[k]
    THEN Reply(400, [message |-> "Invalid date format provided. Use YYYY-MM-DD."])
    ELSE Reply(200,
            [m \in DOMAIN members |->
                [completedGroupHabits |->
                    Cardinality({completedEntries[k].habitId :
                        k \in {j \in DOMAIN completedEntries :
                                 completedEntries[j].userId = members[m]._id}}),
                 totalGroupHabits |-> totalGroupHabits] @@ members[m]])

\* if (!group): 404.
CompletionNoGroupEmptyList == Reply(200, <<>>)

CompletionNoGroup == Reply(404, [message |-> "Group not found."])

CompletionFailure ==
    Reply(500, [message |-> "Failed to fetch group members with completion status.",
                error |-> StorageError])

\* Up to the first query: the validation and the lookup of the group. The
\* request carries, for the properties, the set of states of the store noted
\* while it was in flight (seen).
CompletionBegin(groupId, dateString, ok) ==
    /\ phase = "listening"
    /\ LET req == [id |-> groupId, date |-> dateString, seen |-> {}]
       IN IF ~db
          THEN /\ lastResp' = Resp("completion", NotConnected, 0, FALSE, req)
               /\ UNCHANGED pending
          ELSE IF groupId = EmptyText \/ dateString.form = "empty"
          THEN /\ lastResp' = Resp("completion",
                      Reply(400, [message |-> "Missing group ID or date in parameters."]),
                      0, FALSE, req)
               /\ UNCHANGED pending
          ELSE IF ~IsValid(groupId)
          THEN /\ lastResp' = Resp("completion",
                      Reply(400, [message |-> "Invalid group ID format."]), 0, FALSE, req)
               /\ UNCHANGED pending
          ELSE IF ObjectIdThrows(groupId)
          THEN /\ lastResp' = Resp("completion",
                      Reply(500, [message |->
                          "Failed to fetch group members with completion status.",
                          error |-> "BSONError"]), 0, FALSE, req)
               /\ UNCHANGED pending
          ELSE IF ~ok
          THEN /\ lastResp' = Resp("completion", CompletionFailure, 1, TRUE, req)
               /\ UNCHANGED pending
          ELSE LET group == SelectSeq(groups, LAMBDA g : g._id = ObjectId(groupId))
               IN IF group = <<>>
                  THEN /\ lastResp' = Resp("completion", CompletionNoGroup, 1, FALSE, req)
                       /\ UNCHANGED pending
                  ELSE /\ Len(pending) < MaxInflight
                       /\ pending' = Append(pending,
                              [kind |-> "completion", pc |-> "members", req |-> req,
                               groupObjectId |-> ObjectId(groupId),
                               memberIds |-> group[1].memberIds,
                               members |-> <<>>, totalGroupHabits |-> 0])
                       /\ UNCHANGED lastResp
    /\ UNCHANGED <<phase, db, now, store, tokens>>

\* The stored users among the members of a group, and the number of habits
\* assigned to it, as they are in the store at this instant.
StoredMembers(groupObjectId) ==
    {users[j]._id : j \in {k \in DOMAIN users :
        \E g \in DOMAIN groups :
            /\ groups[g]._id = groupObjectId
            /\ \E m \in DOMAIN groups[g].memberIds :
                  groups[g].memberIds[m] = users[k]._id}}

AssignedCount(groupObjectId) ==
    Cardinality({k \in DOMAIN habits :
        /\ habits[k].assignedTo.type = "group"
        /\ habits[k].assignedTo.id = groupObjectId})

Instant(groupObjectId) ==
    [members |-> StoredMembers(groupObjectId), total |-> AssignedCount(groupObjectId)]

\* Every completion request in flight has noted the store as it is now.
AllObserved ==
    \A i \in DOMAIN pending :
        pending[i].kind = "completion" =>
            Instant(pending[i].groupObjectId) \in pending[i].req.seen

\* While a completion request awaits a query, the store as it is at this
\* instant is noted on the request; nothing of the program changes.
Observe(i) ==
    /\ i \in DOMAIN pending
    /\ pending[i].kind = "completion"
    /\ Instant(pending[i].groupObjectId) \notin pending[i].req.seen
    /\ pending' = [pending EXCEPT
           ![i].req.seen = @ \cup {Instant(pending[i].groupObjectId)}]
    /\ UNCHANGED <<phase, db, now, store, tokens, lastResp>>

IsCompletionAt(i, pc) ==
    /\ i \in DOMAIN pending
    /\ pending[i].kind = "completion"
    /\ pending[i].pc = pc

\* The second query: the users among the memberIds, without their passwords.
CompletionMembers(i, ok) ==
    /\ IsCompletionAt(i, "members")
    /\ IF ~ok
       THEN /\ lastResp' = Resp("completion", CompletionFailure, 2, TRUE, pending[i].req)
            /\ pending' = RemoveAt(pending, i)
       ELSE /\ pending' = [pending EXCEPT
                  ![i].pc = "habits",
                  ![i].members =
                      LET found == SelectSeq(users, LAMBDA u :
                              \E k \in DOMAIN pending[i].memberIds :
                                  pending[i].memberIds[k] = u._id)
                      IN [k \in DOMAIN found |-> WithoutPassword(found[k])]]
            /\ UNCHANGED lastResp
    /\ UNCHANGED <<phase, db, now, store, tokens>>

\* The third query: the habits assigned to the group, for their number.
CompletionHabits(i, ok) ==
    /\ IsCompletionAt(i, "habits")
    /\ IF ~ok
       THEN /\ lastResp' = Resp("completion", CompletionFailure, 3, TRUE, pending[i].req)
            /\ pending' = RemoveAt(pending, i)
       ELSE /\ pending' = [pending EXCEPT
                  ![i].pc = "entries",
                  ![i].totalGroupHabits = Len(GroupHabits(pending[i].groupObjectId))]
            /\ UNCHANGED lastResp
    /\ UNCHANGED <<phase, db, now, store, tokens>>

\* The fourth query, the day's entries of the group, and the response.
CompletionEntries(i, ok) ==
    /\ IsCompletionAt(i, "entries")
    /\ pending' = RemoveAt(pending, i)
    /\ IF ~ok
       THEN lastResp' = Resp("completion", CompletionFailure, 4, TRUE, pending[i].req)
       ELSE lastResp' = Resp("completion",
                CompletionReply(pending[i].members, pending[i].totalGroupHabits,
                    GroupEntriesOnDay(pending[i].groupObjectId, pending[i].req.date)),
                4, FALSE, pending[i].req)
    /\ UNCHANGED <<phase, db, now, store, tokens>>

-----------------------------------------------------------------------------
(* Specifications *)

DoSignupBegin == \E b \in SignupBodies, s \in Salts : SignupBegin(b, s)
DoSignupInsert == \E i \in 1..MaxInflight, ok \in BOOLEAN : SignupInsert(i, ok)
DoLogin ==
    \E e \in Emails \cup {Missing}, p \in Passwords \cup {Missing}, ok \in BOOLEAN :
        Login(e, p, ok)
DoAuthStatus == \E h \in AuthHeaders, ok \in BOOLEAN : AuthStatus(h, ok)

\* The bodies of the two accounts with different emails.
TwoAccounts == {b \in SignupBodies : b.password # Missing /\ b.username # Missing
                  /\ b.email # Missing /\ (b.username = "bob" => b.email = "b@x.com")}

\* The group bodies with a name and well-formed identifiers.
GroupToInsertable(b) ==
    b.name # Missing /\ IsValid(b.ownerId) /\ ~GroupToInsertThrows(b)

DoCreateHabit == \E b \in HabitBodies, ok \in BOOLEAN : CreateHabit(b, ok)
DoCreateGroup == \E b \in GroupBodies, ok \in BOOLEAN : CreateGroup(b, ok)
DoCreateUserEntry == \E b \in UserEntryBodies, ok \in BOOLEAN : CreateUserEntry(b, ok)
DoCreateGroupEntry == \E b \in GroupEntryBodies, ok \in BOOLEAN : CreateGroupEntry(b, ok)
DoGetUserHabits == \E u \in UserIdParams, ok \in BOOLEAN : GetUserHabits(u, ok)
DoGetUserGroups == \E u \in UserIdParams, ok \in BOOLEAN : GetUserGroups(u, ok)
DoGetGroupHabits == \E g \in GroupIdParams, ok \in BOOLEAN : GetGroupHabits(g, ok)
DoGetUserEntries ==
    \E u \in UserIdParams, d \in DateTexts, ok \in BOOLEAN : GetUserEntries(u, d, ok)
DoGetGroupEntries ==
    \E g \in GroupIdParams, d \in DateTexts, ok \in BOOLEAN : GetGroupEntries(g, d, ok)
DoGetUserCreatedAt == \E u \in UserIdParams, ok \in BOOLEAN : GetUserCreatedAt(u, ok)
DoMostLoggedHabit ==
    \E u \in UserIdParams, ok \in BOOLEAN :
        \E r \in MostLoggedResults(u) \cup {NoRow} : MostLoggedHabit(u, r, ok)
DoCompletionBegin ==
    \E g \in GroupIdParams, d \in DateTexts, ok \in BOOLEAN : CompletionBegin(g, d, ok)
DoCompletionMembers == \E i \in 1..MaxInflight, ok \in BOOLEAN : CompletionMembers(i, ok)
DoCompletionHabits == \E i \in 1..MaxInflight, ok \in BOOLEAN : CompletionHabits(i, ok)
DoCompletionEntries == \E i \in 1..MaxInflight, ok \in BOOLEAN : CompletionEntries(i, ok)

\* Concurrent signups: any number of requests up to MaxInflight between their
\* hashing and their insert.
NextSignup ==
    \/ ClientConnect
    \/ StartServerOk
    \/ StartServerFail
    \/ DoSignupBegin
    \/ DoSignupInsert

SpecSignup == Init /\ [][NextSignup]_vars

\* The account endpoints, one signup at a time, with the clock.
NextAuth ==
    \/ ClientConnect
    \/ StartServerOk
    \/ StartServerFail
    \/ Tick
    \/ (pending = <<>> /\ DoSignupBegin)
    \/ DoSignupInsert
    \/ DoLogin
    \/ DoAuthStatus
    \/ Logout

SpecAuth == Init /\ [][NextAuth]_vars

\* Groups, their habits and log entries, and the completion summary, one
\* suspended request at a time.
NextGroup ==
    \/ ClientConnect
    \/ StartServerOk
    \/ StartServerFail
    \/ (pending = <<>> /\ \E b \in TwoAccounts : SignupBegin(b, "salt1"))
    \/ (\E i \in 1..MaxInflight : SignupInsert(i, TRUE))
    \/ (\E b \in GroupBodies :
            GroupToInsertable(b) /\ Len(MemberIds(b)) > 0 /\ CreateGroup(b, TRUE))
    \/ (\E b \in HabitBodies : b.title # Missing /\ CreateHabit(b, TRUE))
    \/ (\E b \in GroupEntryBodies : CreateGroupEntry(b, TRUE))
    \/ (pending = <<>> /\ \E d \in DateTexts, ok \in BOOLEAN :
            CompletionBegin(G(1), d, ok))
    \/ DoCompletionMembers
    \/ DoCompletionHabits
    \/ DoCompletionEntries

SpecGroup == Init /\ [][NextGroup]_vars

\* Habits, personal log entries and the most-logged-habit query, with the clock.
NextHabit ==
    \/ ClientConnect
    \/ StartServerOk
    \/ StartServerFail
    \/ (Tick /\ now' < ExpiresInSec * MsPerSec)
    \/ (\E b \in HabitBodies : CreateHabit(b, TRUE))
    \/ (\E b \in UserEntryBodies : b.date.form = "iso" /\ CreateUserEntry(b, TRUE))
    \/ DoMostLoggedHabit

SpecHabit == Init /\ [][NextHabit]_vars

\* The read endpoints over stored groups.
NextRead ==
    \/ ClientConnect
    \/ StartServerOk
    \/ StartServerFail
    \/ DoCreateGroup
    \/ DoGetUserHabits
    \/ DoGetUserGroups
    \/ DoGetGroupHabits
    \/ DoGetUserEntries
    \/ DoGetGroupEntries
    \/ DoGetUserCreatedAt
    \/ DoMostLoggedHabit
    \/ (pending = <<>> /\ DoCompletionBegin)
    \/ DoCompletionMembers
    \/ DoCompletionHabits
    \/ DoCompletionEntries

SpecRead == Init /\ [][NextRead]_vars

\* Every endpoint that answers with data of a user, over stored users and
\* groups.
NextPrivacy ==
    \/ ClientConnect
    \/ StartServerOk
    \/ StartServerFail
    \/ (pending = <<>> /\ DoSignupBegin)
    \/ DoSignupInsert
    \/ DoLogin
    \/ DoAuthStatus
    \/ (\E b \in GroupBodies : GroupToInsertable(b) /\ CreateGroup(b, TRUE))
    \/ (pending = <<>> /\ \E ok \in BOOLEAN : CompletionBegin(G(1), IsoText(1, 0), ok))
    \/ DoCompletionMembers
    \/ DoCompletionHabits
    \/ DoCompletionEntries
    \/ DoGetUserCreatedAt

SpecPrivacy == Init /\ [][NextPrivacy]_vars

\* Log entries dated around the bounds of a day and the three day queries for
\* that day; personal entries and group entries are exercised apart.
NextDay ==
    \/ ClientConnect
    \/ StartServerOk
    \/ StartServerFail
    \/ (groups = <<>> /\ \E b \in DayUserEntryBodies, ok \in BOOLEAN :
            CreateUserEntry(b, ok))
    \/ (userHabitEntries = <<>> /\ CreateGroup([name |-> "crew", ownerId |-> U(1)], TRUE))
    \/ (userHabitEntries = <<>> /\ \E b \in DayGroupEntryBodies, ok \in BOOLEAN :
            CreateGroupEntry(b, ok))
    \/ GetUserEntries(U(1), IsoText(1, 0), TRUE)
    \/ GetGroupEntries(G(1), IsoText(1, 0), TRUE)
    \/ (pending = <<>> /\ CompletionBegin(G(1), IsoText(1, 0), TRUE))
    \/ DoCompletionMembers
    \/ DoCompletionHabits
    \/ DoCompletionEntries

SpecDay == Init /\ [][NextDay]_vars

\* A request body carrying one field that no handler names.
WithExtra(body) == body @@ [nickname |-> "skipper"]

ExtraSignupBodies == {WithExtra(b) : b \in TwoAccounts}

ExtraHabitBodies ==
    {WithExtra([title |-> "run", createdBy |-> U(1), schedule |-> "daily",
                assignedTo |-> [type |-> "group", id |-> G(1)]]),
     [title |-> "read", createdBy |-> U(1), schedule |-> "daily",
      assignedTo |-> [type |-> "user", id |-> U(1)]]}

ExtraGroupBodies ==
    {WithExtra([name |-> "crew", ownerId |-> U(1), memberIds |-> <<U(1), U(2)>>])}

ExtraUserEntryBodies ==
    {WithExtra([habitId |-> H(1), userId |-> U(1), date |-> IsoText(1, 0),
                status |-> "done", notes |-> "felt good"])}

ExtraGroupEntryBodies ==
    {WithExtra([habitId |-> H(1), groupId |-> G(1), date |-> IsoText(1, 0),
                checkedBy |-> <<U(1)>>])}

\* The five creation routes, each called with and without a field it does not
\* name.
NextExtra ==
    \/ ClientConnect
    \/ StartServerOk
    \/ StartServerFail
    \/ (\E b \in ExtraSignupBodies, s \in Salts : SignupBegin(b, s))
    \/ DoSignupInsert
    \/ (\E b \in ExtraHabitBodies : CreateHabit(b, TRUE))
    \/ (\E b \in ExtraGroupBodies : CreateGroup(b, TRUE))
    \/ (\E b \in ExtraUserEntryBodies : CreateUserEntry(b, TRUE))
    \/ (\E b \in ExtraGroupEntryBodies : CreateGroupEntry(b, TRUE))

SpecExtra == Init /\ [][NextExtra]_vars

\* Every route of the service, each with a request that succeeds and one that
\* fails.
Next ==
    \/ ClientConnect
    \/ StartServerOk
    \/ StartServerFail
    \/ (pending = <<>> /\ \E b \in SignupBodies :
            /\ b.username = "ann" /\ b.email \in {"a@x.com", Missing}
            /\ b.password = "pw1"
            /\ SignupBegin(b, "salt1"))
    \/ DoSignupInsert
    \/ (\E p \in Passwords : Login("a@x.com", p, TRUE))
    \/ (\E h \in AuthHeaders : AuthStatus(h, TRUE))
    \/ Logout
    \/ (\E b \in HabitBodies, ok \in BOOLEAN :
            /\ "createdAt" \notin DOMAIN b
            /\ b.assignedTo.type # Missing
            /\ CreateHabit(b, ok))
    \/ (\E b \in GroupBodies, ok \in BOOLEAN :
            /\ "memberIds" \in DOMAIN b => Len(b.memberIds) = 2
            /\ IsValid(b.ownerId)
            /\ CreateGroup(b, ok))
    \/ (\E b \in UserEntryBodies, ok \in BOOLEAN :
            /\ b.habitId \in {H(1), ShortText}
            /\ b.userId = U(1)
            /\ b.date.form = "iso"
            /\ CreateUserEntry(b, ok))
    \/ (\E b \in GroupEntryBodies, ok \in BOOLEAN :
            /\ "checkedBy" \in DOMAIN b \/ b.date.form = "empty"
            /\ CreateGroupEntry(b, ok))
    \/ GetUserHabits(U(1), TRUE)
    \/ GetUserGroups(U(1), TRUE)
    \/ GetGroupHabits(G(1), TRUE)
    \/ GetUserEntries(U(1), IsoText(1, 0), TRUE)
    \/ GetGroupEntries(G(1), IsoText(1, 0), TRUE)
    \/ GetUserCreatedAt(U(1), TRUE)
    \/ (\E r \in MostLoggedResults(U(1)) \cup {NoRow} : MostLoggedHabit(U(1), r, TRUE))
    \/ (pending = <<>> /\ CompletionBegin(G(1), IsoText(1, 0), TRUE))
    \/ (\E i \in 1..MaxInflight : CompletionMembers(i, TRUE))
    \/ (\E i \in 1..MaxInflight : CompletionHabits(i, TRUE))
    \/ DoCompletionEntries

Spec == Init /\ [][Next]_vars

\* The completion summary of the crew while its second member signs up and
\* habits are created; each state of the store that a write is about to
\* replace is noted first on the requests in flight.
NextAtomic ==
    \/ ClientConnect
    \/ StartServerOk
    \/ StartServerFail
    \/ (\E b \in TwoAccounts : SignupBegin(b, "salt1"))
    \/ (AllObserved /\ \E i \in 1..MaxInflight : SignupInsert(i, TRUE))
    \/ CreateGroup([name |-> "crew", ownerId |-> U(1), memberIds |-> <<U(1), U(2)>>],
                   TRUE)
    \/ (AllObserved /\ \E b \in ExtraHabitBodies : CreateHabit(b, TRUE))
    \/ ((\A i \in DOMAIN pending : pending[i].kind # "completion")
            /\ CompletionBegin(G(1), IsoText(1, 0), TRUE))
    \/ (\E i \in 1..MaxInflight : Observe(i))
    \/ (\E i \in 1..MaxInflight : CompletionMembers(i, TRUE))
    \/ (\E i \in 1..MaxInflight : CompletionHabits(i, TRUE))
    \/ (\E i \in 1..MaxInflight : CompletionEntries(i, TRUE))

SpecAtomic == Init /\ [][NextAtomic]_vars

\* Signups and a completion summary in flight when SIGINT arrives. Until the
\* connection is closed a storage operation in flight completes; once it is
\* closed the operation may fail or complete (the driver decides); after the
\* exit nothing runs.
NextShutdown ==
    \/ ClientConnect
    \/ StartServerOk
    \/ StartServerFail
    \/ Sigint
    \/ ClientClose
    \/ ProcessExit
    \/ (\E b \in TwoAccounts : SignupBegin(b, "salt1"))
    \/ CreateGroup([name |-> "crew", ownerId |-> U(1)], TRUE)
    \/ CompletionBegin(G(1), IsoText(1, 0), TRUE)
    \/ (\E i \in 1..MaxInflight, ok \in BOOLEAN :
            /\ phase \in {"listening", "closing", "closed"}
            /\ ok \/ phase = "closed"
            /\ \/ SignupInsert(i, ok)
               \/ CompletionMembers(i, ok)
               \/ CompletionHabits(i, ok)
               \/ CompletionEntries(i, ok))

SpecShutdown == Init /\ [][NextShutdown]_vars

-----------------------------------------------------------------------------
(* Control paths of the handlers *)

\* The statements of every route handler that decide whether and when it
\* responds, in source order, each as <<line, kind, statuses>>:
\*   "guard"   if (...) { respond; return; }: responds and ends the handler, or
\*             falls through to the next statement;
\*   "throws"  a conversion or an awaited call inside the try block: raises,
\*             which enters the catch block, or falls through;
\*   "respond" the response that ends the try block (an if/else that responds
\*             on both branches included);
\*   "catch"   the catch block, which responds on each of its branches.
\* The catch block is the last statement of a handler that has one.
Routes ==
    << <<"root", << <<75, "respond", {200}>> >> >>,
       <<"createHabit",
         << <<84, "guard", {500}>>, <<96, "guard", {400}>>,
            <<102, "guard", {400}>>, <<110, "guard", {400}>>,
            <<117, "throws", {}>>, <<126, "throws", {}>>,
            <<129, "respond", {201}>>, <<133, "catch", {500}>> >> >>,
       <<"signup",
         << <<146, "guard", {500}>>, <<158, "guard", {400}>>,
            <<167, "throws", {}>>, <<170, "throws", {}>>, <<185, "throws", {}>>,
            <<189, "respond", {201}>>, <<195, "catch", {409, 500}>> >> >>,
       <<"login",
         << <<211, "guard", {500}>>, <<223, "guard", {400}>>,
            <<230, "throws", {}>>, <<233, "guard", {401}>>,
            <<239, "throws", {}>>, <<242, "guard", {401}>>,
            <<249, "throws", {}>>, <<256, "respond", {200}>>,
            <<260, "catch", {500}>> >> >>,
       <<"createGroup",
         << <<271, "guard", {500}>>, <<283, "guard", {400}>>,
            <<291, "guard", {400}>>, <<299, "throws", {}>>,
            <<309, "guard", {400}>>, <<318, "throws", {}>>,
            <<322, "respond", {201}>>, <<327, "catch", {409, 500}>> >> >>,
       <<"createUserEntry",
         << <<342, "guard", {500}>>, <<354, "guard", {400}>>,
            <<362, "guard", {400}>>, <<368, "throws", {}>>,
            <<376, "throws", {}>>, <<378, "respond", {201}>>,
            <<383, "catch", {400, 500}>> >> >>,
       <<"createGroupEntry",
         << <<398, "guard", {500}>>, <<410, "guard", {400}>>,
            <<418, "guard", {400}>>, <<424, "guard", {400}>>,
            <<432, "throws", {}>>, <<441, "throws", {}>>,
            <<443, "respond", {201}>>, <<448, "catch", {400, 500}>> >> >>,
       <<"userHabits",
         << <<463, "guard", {500}>>, <<472, "guard", {400}>>,
            <<479, "guard", {400}>>, <<483, "throws", {}>>,
            <<491, "throws", {}>>, <<498, "respond", {200}>>,
            <<502, "catch", {500}>> >> >>,
       <<"userGroups",
         << <<513, "guard", {500}>>, <<522, "guard", {400}>>,
            <<529, "guard", {400}>>, <<533, "throws", {}>>,
            <<539, "throws", {}>>, <<543, "respond", {200}>>,
            <<547, "catch", {500}>> >> >>,
       <<"groupHabits",
         << <<558, "guard", {500}>>, <<567, "guard", {400}>>,
            <<574, "guard", {400}>>, <<578, "throws", {}>>,
            <<584, "throws", {}>>, <<589, "respond", {200}>>,
            <<593, "catch", {500}>> >> >>,
       <<"authStatus",
         << <<605, "guard", {401}>>, <<611, "guard", {403}>>,
            <<622, "guard", {500}>>, <<630, "throws", {}>>,
            <<632, "guard", {404}>>, <<638, "respond", {200}>>,
            <<642, "catch", {500}>> >> >>,
       <<"logout", << <<657, "respond", {200}>> >> >>,
       <<"userDayEntries",
         << <<667, "guard", {500}>>, <<677, "guard", {400}>>,
            <<684, "guard", {400}>>, <<688, "throws", {}>>,
            <<701, "throws", {}>>, <<710, "respond", {200}>>,
            <<715, "catch", {400, 500}>> >> >>,
       <<"groupDayEntries",
         << <<730, "guard", {500}>>, <<740, "guard", {400}>>,
            <<747, "guard", {400}>>, <<751, "throws", {}>>,
            <<763, "throws", {}>>, <<772, "respond", {200}>>,
            <<777, "catch", {400, 500}>> >> >>,
       <<"completion",
         << <<792, "guard", {500}>>, <<802, "guard", {400}>>,
            <<809, "guard", {400}>>, <<813, "throws", {}>>,
            <<828, "throws", {}>>, <<830, "guard", {404}>>,
            <<839, "throws", {}>>, <<845, "throws", {}>>,
            <<852, "throws", {}>>, <<862, "throws", {}>>,
            <<884, "respond", {200}>>, <<889, "catch", {400, 500}>> >> >>,
       <<"mostLogged",
         << <<904, "guard", {500}>>, <<913, "guard", {400}>>,
            <<920, "guard", {400}>>, <<924, "throws", {}>>,
            <<984, "throws", {}>>, <<986, "respond", {200, 404}>>,
            <<995, "catch", {500}>> >> >>,
       <<"createdAt",
         << <<1006, "guard", {500}>>, <<1015, "guard", {400}>>,
            <<1022, "guard", {400}>>, <<1026, "throws", {}>>,
            <<1032, "throws", {}>>, <<1037, "respond", {200, 404}>>,
            <<1047, "catch", {500}>> >> >> >>

\* Express calls the handler of route r: the request is at its first statement
\* and has sent nothing. One request is followed at a time.
PathBegin(r) ==
    /\ phase = "listening"
    /\ pending = <<>>
    /\ r \in DOMAIN Routes
    /\ pending' = <<[kind |-> "path", route |-> r, pc |-> 1, sent |-> <<>>]>>
    /\ UNCHANGED <<phase, db, now, store, tokens, lastResp>>

\* A variant in which a guard responds without returning.
PathStepNoReturn(i, taken) ==
    /\ i \in DOMAIN pending
    /\ pending[i].kind = "path"
    /\ LET nodes == Routes[pending[i].route][2]
           node == nodes[pending[i].pc]
       IN \E code \in node[3] \cup {0} :
            LET responds == \/ node[2] \in {"respond", "catch"}
                            \/ node[2] = "guard" /\ taken
                sent == IF responds THEN Append(pending[i].sent, code)
                        ELSE pending[i].sent
                pc == CASE node[2] = "guard" -> pending[i].pc + 1
                        [] node[2] = "throws" /\ taken -> Len(nodes)
                        [] node[2] = "throws" /\ ~taken -> pending[i].pc + 1
                        [] OTHER -> Len(nodes) + 1
            IN /\ (code # 0) = responds
               /\ node[2] \in {"respond", "catch"} => taken
               /\ IF pc > Len(nodes)
                  THEN /\ pending' = RemoveAt(pending, i)
                       /\ lastResp' = Resp("path",
                              Reply(IF sent = <<>> THEN 0 ELSE sent[1], sent),
                              0, FALSE,
                              [route |-> Routes[pending[i].route][1],
                               line |-> node[1]])
                  ELSE /\ pending' = [pending EXCEPT ![i].pc = pc,
                                                     ![i].sent = sent]
                       /\ UNCHANGED lastResp
    /\ UNCHANGED <<phase, db, now, store, tokens>>

\* The handler runs its next statement. At a guard, taken says that its
\* condition holds; at a statement that can raise, that it raises. A response
\* adds its status to what the request has sent. The handler ends after a
\* guard that responds (return), after the response that ends the try block,
\* after the catch block, and after its last statement; the response recorded
\* then carries every status the request has sent, in order, as its body.
PathStep(i, taken) ==
    /\ i \in DOMAIN pending
    /\ pending[i].kind = "path"
    /\ LET nodes == Routes[pending[i].route][2]
           node == nodes[pending[i].pc]
       IN \E code \in node[3] \cup {0} :
            LET responds == \/ node[2] \in {"respond", "catch"}
                            \/ node[2] = "guard" /\ taken
                sent == IF responds THEN Append(pending[i].sent, code)
                        ELSE pending[i].sent
                pc == CASE node[2] = "guard" /\ ~taken -> pending[i].pc + 1
                        [] node[2] = "throws" /\ taken -> Len(nodes)
                        [] node[2] = "throws" /\ ~taken -> pending[i].pc + 1
                        [] OTHER -> Len(nodes) + 1
            IN /\ (code # 0) = responds
               /\ node[2] \in {"respond", "catch"} => taken
               /\ IF pc > Len(nodes)
                  THEN /\ pending' = RemoveAt(pending, i)
                       /\ lastResp' = Resp("path",
                              Reply(IF sent = <<>> THEN 0 ELSE sent[1], sent),
                              0, FALSE,
                              [route |-> Routes[pending[i].route][1],
                               line |-> node[1]])
                  ELSE /\ pending' = [pending EXCEPT ![i].pc = pc,
                                                     ![i].sent = sent]
                       /\ UNCHANGED lastResp
    /\ UNCHANGED <<phase, db, now, store, tokens>>

\* Every route, every outcome of every guard and of every statement that can
\* raise.
NextPaths ==
    \/ ClientConnect
    \/ StartServerOk
    \/ StartServerFail
    \/ (\E r \in DOMAIN Routes : PathBegin(r))
    \/ (\E i \in 1..MaxInflight, taken \in BOOLEAN : PathStep(i, taken))

SpecPaths == Init /\ [][NextPaths]_vars

-----------------------------------------------------------------------------
(* Properties *)

IsSignupInsert(i) ==
    /\ i \in DOMAIN pending
    /\ pending[i].kind = "signup"
    /\ pending' = RemoveAt(pending, i)

NoDuplicateEmail ==
    \A i, j \in DOMAIN users : users[i].email = users[j].email => i = j

NoSuchUser(email) == \A k \in DOMAIN users : users[k].email # email

WrongPassword(email, password) ==
    \E k \in DOMAIN users :
        /\ users[k].email = email
        /\ \A b \in SignupBodies :
              (b.email = email /\ b.username = users[k].username)
                  => b.password # password

\* C2: a login with an email no user has and a login with a stored email and a
\* wrong password are answered alike: status 401 and the same body.
C2_Uniform401 ==
    \A e1, e2 \in Emails, p1, p2 \in Passwords :
        (NoSuchUser(e1) /\ WrongPassword(e2, p2)) =>
            /\ LoginReply(e1, p1, TRUE) = LoginReply(e2, p2, TRUE)
            /\ LoginReply(e1, p1, TRUE).status = 401

\* A login with a stored email and a wrong password was answered, while some
\* other email is not stored.
C2_Witness ==
    /\ lastResp.kind = "login"
    /\ lastResp.status = 401
    /\ WrongPassword(lastResp.req.email, lastResp.req.password)
    /\ \E e \in Emails : NoSuchUser(e)

\* The status request's token passes the signature and the expiry check at the
\* instant of the response.
TokenGood(token, at) == token.key = jwtSecret /\ at \div MsPerSec < token.exp

UserOfToken(token) == {k \in DOMAIN users : toHexString(users[k]._id) = token.id}

C6_Witness401 == lastResp.kind = "status" /\ lastResp.status = 401
C6_Witness403 == lastResp.kind = "status" /\ lastResp.status = 403
C6_Witness404 == lastResp.kind = "status" /\ lastResp.status = 404
C6_Witness200 == lastResp.kind = "status" /\ lastResp.status = 200

HourMs == ExpiresInSec * MsPerSec

\* The status request of the last response carried a token a login issued.
StatusOfIssued(t) ==
    /\ lastResp.kind = "status"
    /\ ~lastResp.failed
    /\ Len(lastResp.req.header) = 2
    /\ lastResp.req.header[2] = t.tok

AcceptedAs(t) ==
    /\ lastResp.status = 200
    /\ toHexString(lastResp.body.user._id) = t.tok.id
    /\ lastResp.body.user.username = t.tok.username

LoginEmbedsUser ==
    (lastResp.kind = "login" /\ lastResp.status = 200) =>
        \E k \in DOMAIN users :
            /\ users[k].email = lastResp.req.email
            /\ lastResp.body.token.id = toHexString(users[k]._id)
            /\ lastResp.body.token.username = users[k].username

\* C7 as claimed: a token a login issued is accepted at any time before one
\* hour has elapsed since its issue, and rejected with 403 after it.
C7_Original ==
    /\ LoginEmbedsUser
    /\ \A t \in tokens : StatusOfIssued(t) =>
          /\ (lastResp.req.at - t.at < HourMs) => AcceptedAs(t)
          /\ (lastResp.req.at - t.at > HourMs) => lastResp.status = 403

\* C7, amended: the token embeds the id and username of the user that logged
\* in; the status check accepts it (200 with that user) while the clock in
\* whole seconds is below the issue instant in whole seconds plus 3600, and
\* rejects it with 403 from that second on.
C7_Expiry ==
    /\ LoginEmbedsUser
    /\ \A t \in tokens : StatusOfIssued(t) =>
          IF lastResp.req.at \div MsPerSec < (t.at \div MsPerSec) + ExpiresInSec
          THEN AcceptedAs(t)
          ELSE lastResp.status = 403

\* A token issued at 0.9 s was rejected at 3600.0 s, less than an hour later.
C7_Witness ==
    \E t \in tokens :
        /\ StatusOfIssued(t)
        /\ lastResp.status = 403
        /\ lastResp.req.at - t.at < HourMs

\* The habits the entries of the group's day record as confirmed by a member.
ConfirmedHabits(memberId, groupId, dateString) ==
    {groupHabitEntries[k].habitId :
        k \in {j \in DOMAIN groupHabitEntries :
                 /\ groupHabitEntries[j].groupId = ObjectId(groupId)
                 /\ OnDay(groupHabitEntries[j], dateString)
                 /\ \E c \in DOMAIN groupHabitEntries[j].checkedBy :
                       groupHabitEntries[j].checkedBy[c] = memberId}}

\* C3: the completion summary of a stored group answers 200, and each returned
\* member's completedGroupHabits is the number of distinct habits the member
\* confirmed for the group on the day (the same habit confirmed in two entries
\* counts once).
C3_DistinctHabits ==
    (lastResp.kind = "completion" /\ lastResp.ops = 4 /\ ~lastResp.failed) =>
        /\ lastResp.status = 200
        /\ \A m \in DOMAIN lastResp.body :
              lastResp.body[m].completedGroupHabits =
                  Cardinality(ConfirmedHabits(lastResp.body[m]._id,
                                              lastResp.req.id, lastResp.req.date))

Count(userObjectId, habitObjectId) ==
    Cardinality({i \in DOMAIN userHabitEntries :
                    /\ userHabitEntries[i].userId = userObjectId
                    /\ userHabitEntries[i].habitId = habitObjectId})

\* C4: the most-logged habit is a stored habit with the greatest number of the
\* user's entries; among the habits with that number it has the earliest
\* createdAt; completionCount is that number.
C4_MostLogged ==
    (lastResp.kind = "mostLogged" /\ lastResp.status = 200) =>
        LET user == ObjectId(lastResp.req.id)
            top == lastResp.body
        IN \E k \in DOMAIN habits :
              /\ habits[k]._id = top._id
              /\ habits[k].title = top.title
              /\ top.completionCount = Count(user, top._id)
              /\ top.completionCount > 0
              /\ \A j \in DOMAIN habits :
                    \/ Count(user, habits[j]._id) < top.completionCount
                    \/ /\ Count(user, habits[j]._id) = top.completionCount
                       /\ habits[j].createdAt >= habits[k].createdAt

\* Two habits created at different instants have the same number of entries,
\* and the query answered with one of them.
C4_Witness ==
    /\ lastResp.kind = "mostLogged"
    /\ lastResp.status = 200
    /\ \E j, k \in DOMAIN habits :
          /\ habits[j].createdAt < habits[k].createdAt
          /\ Count(ObjectId(lastResp.req.id), habits[j]._id) = lastResp.body.completionCount
          /\ Count(ObjectId(lastResp.req.id), habits[k]._id) = lastResp.body.completionCount

GetKinds ==
    {"userHabits", "userGroups", "groupHabits", "userEntries", "groupEntries",
     "userCreatedAt", "mostLogged", "completion"}

\* C5: a GET request whose :userId or :groupId is not a well-formed identifier
\* is answered 400 and issues no storage operation.
C5_BadIdRejected ==
    (lastResp.kind \in GetKinds /\ lastResp.req.id \in BadIdTexts) =>
        lastResp.status = 400 /\ lastResp.ops = 0

\* The completion summary was asked with a malformed groupId while a group is
\* stored.
C5_Witness ==
    /\ lastResp.kind = "completion"
    /\ lastResp.req.id \in BadIdTexts
    /\ lastResp.status = 400
    /\ groups # <<>>

HexTexts(ids) == [i \in DOMAIN ids |-> toHexString(ids[i])]

\* C8: a created group's stored memberIds is the provided list, converted, when
\* the body has memberIds, and the one-element list of the owner otherwise; a
\* body with a name and a well-formed ownerId and no memberIds is stored (or
\* answered 409 for a taken name).
C8_MemberIds ==
    /\ (lastResp.kind = "group" /\ lastResp.status = 201) =>
          \E k \in DOMAIN groups :
              /\ groups[k]._id = lastResp.body.insertedId
              /\ HexTexts(groups[k].memberIds) =
                    IF "memberIds" \in DOMAIN lastResp.req.body
                    THEN lastResp.req.body.memberIds
                    ELSE <<lastResp.req.body.ownerId>>
    /\ (/\ lastResp.kind = "group"
        /\ ~lastResp.failed
        /\ lastResp.req.body.name # Missing
        /\ lastResp.req.body.ownerId \notin BadIdTexts \cup {EmptyText}
        /\ "memberIds" \notin DOMAIN lastResp.req.body)
          => lastResp.status \in {201, 409}

\* A group was created with a provided member list that leaves the owner out.
C8_Witness ==
    /\ lastResp.kind = "group"
    /\ lastResp.status = 201
    /\ "memberIds" \in DOMAIN lastResp.req.body
    /\ \E k \in DOMAIN groups :
          /\ groups[k]._id = lastResp.body.insertedId
          /\ groups[k].memberIds # <<>>
          /\ \A m \in DOMAIN groups[k].memberIds :
                groups[k].memberIds[m] # groups[k].ownerId

C8_WitnessDefault ==
    /\ lastResp.kind = "group"
    /\ lastResp.status = 201
    /\ "memberIds" \notin DOMAIN lastResp.req.body

\* C9: the createdAt of a created habit, stored and returned, is the server's
\* clock at the handling of the request, whatever the body's createdAt.
C9_ServerCreatedAt ==
    (lastResp.kind = "habit" /\ lastResp.status = 201) =>
        /\ lastResp.body.insertedHabit.createdAt = lastResp.req.at
        /\ \E k \in DOMAIN habits :
              /\ habits[k]._id = lastResp.body.insertedId
              /\ habits[k].createdAt = lastResp.req.at

\* A habit was created from a body that carries its own createdAt.
C9_Witness ==
    /\ lastResp.kind = "habit"
    /\ lastResp.status = 201
    /\ "createdAt" \in DOMAIN lastResp.req.body
    /\ lastResp.req.body.createdAt # lastResp.req.at

\* The texts no response may carry: the passwords and the stored hashes.
Secrets == Passwords \cup {users[k].password : k \in DOMAIN users}

TextFields == {"message", "username", "email", "text", "error", "title"}

NoSecret(rec) ==
    /\ "password" \notin DOMAIN rec
    /\ \A f \in DOMAIN rec \cap TextFields : rec[f] \notin Secrets

StoredHashed ==
    \A k \in DOMAIN users :
        /\ users[k].password \notin Passwords
        /\ \E b \in SignupBodies, s \in Salts :
              /\ b.username = users[k].username
              /\ b.email = users[k].email
              /\ users[k].password = bcryptHash(b.password, genSalt(saltRounds, s))

\* C10: a stored user's password is the hash of the password supplied at
\* signup, never the password; and no response of signup, login, the status
\* check, the completion summary or the createdAt lookup carries a password
\* or a stored hash.
C10_NoPassword ==
    /\ StoredHashed
    /\ lastResp.kind \in {"signup", "login"} => NoSecret(lastResp.body)
    /\ (lastResp.kind = "login" /\ lastResp.status = 200) =>
          NoSecret(lastResp.body.token)
    /\ (lastResp.kind = "status" /\ lastResp.status = 200) =>
          NoSecret(lastResp.body.user)
    /\ (lastResp.kind = "status" /\ lastResp.status # 200) => NoSecret(lastResp.body)
    /\ (lastResp.kind = "completion" /\ lastResp.status = 200) =>
          \A m \in DOMAIN lastResp.body : NoSecret(lastResp.body[m])
    /\ (lastResp.kind = "completion" /\ lastResp.status # 200) =>
          NoSecret(lastResp.body)
    /\ (lastResp.kind = "userCreatedAt" /\ lastResp.status = 200) =>
          DOMAIN lastResp.body = {"createdAt"}
    /\ (lastResp.kind = "userCreatedAt" /\ lastResp.status # 200) =>
          NoSecret(lastResp.body)

\* The completion summary returned the stored members of a group.
C10_Witness ==
    /\ lastResp.kind = "completion"
    /\ lastResp.status = 200
    /\ Len(lastResp.body) > 0
    /\ \A m \in DOMAIN lastResp.body :
          \E k \in DOMAIN users : users[k]._id = lastResp.body[m]._id

C10_WitnessStatus == lastResp.kind = "status" /\ lastResp.status = 200
C10_WitnessCreatedAt == lastResp.kind = "userCreatedAt" /\ lastResp.status = 200

EntryKinds == {"userEntry", "groupEntry"}

\* C11: a log-entry creation with well-formed identifiers and a date that is
\* no parseable date text is answered 400 and inserts nothing; a 500 is
\* answered only when the store failed the request.
C11_BadDateRejected ==
    /\ (/\ lastResp.kind \in EntryKinds
        /\ lastResp.req.body.date.form = "garbage"
        /\ ~lastResp.failed) =>
            /\ lastResp.status = 400
            /\ lastResp.ops = 0
    /\ (lastResp.kind \in EntryKinds /\ lastResp.status = 500) => lastResp.failed

\* C12: a group creation with a name, a well-formed ownerId and a memberIds
\* list that holds a malformed identifier is answered 400 and inserts nothing.
C12_BadMemberRejected ==
    (/\ lastResp.kind = "group"
     /\ lastResp.req.body.name # Missing
     /\ lastResp.req.body.ownerId \notin BadIdTexts \cup {EmptyText}
     /\ "memberIds" \in DOMAIN lastResp.req.body
     /\ \E k \in DOMAIN lastResp.req.body.memberIds :
           lastResp.req.body.memberIds[k] \in BadIdTexts) =>
        lastResp.status = 400 /\ lastResp.ops = 0

\* C13: the service listens only after connect and ping succeeded and the
\* database handle is published; a failed startup exits and never listens; no
\* request is answered while the handle is unset.
C13_ListenAfterConnect ==
    /\ [](phase = "listening" => db)
    /\ [](lastResp.kind # "none" => db)
    /\ [][(phase' = "listening" /\ phase # "listening") =>
              (phase = "connected" /\ db')]_vars
    /\ [][phase = "exited" => (phase' = "exited" /\ lastResp' = lastResp)]_vars
    /\ [][lastResp' # lastResp => phase = "listening"]_vars

\* A request was answered by the listening service.
C13_Witness == phase = "listening" /\ db /\ lastResp.kind = "login"

\* The startup failed after the connection was made, and the process exited.
C13_WitnessExit == phase = "exited" /\ ~db

\* The day's range, worked out from the day number.
InDay(entry, day) ==
    entry.date >= day * DayMs /\ entry.date <= day * DayMs + (DayMs - 1)

\* C16: the day queries for day D answer exactly the stored entries dated from
\* D 00:00:00.000 to D 23:59:59.999 UTC, bounds included; the completion
\* summary, which fails on any entry it selects (C3), answers 200 exactly when
\* the group has no entry in that range.
C16_DayRange ==
    /\ (lastResp.kind = "userEntries" /\ lastResp.status = 200
        /\ lastResp.req.date.form = "iso") =>
          lastResp.body = SelectSeq(userHabitEntries, LAMBDA e :
              /\ toHexString(e.userId) = lastResp.req.id
              /\ InDay(e, lastResp.req.date.day))
    /\ (lastResp.kind = "groupEntries" /\ lastResp.status = 200
        /\ lastResp.req.date.form = "iso") =>
          lastResp.body = SelectSeq(groupHabitEntries, LAMBDA e :
              /\ toHexString(e.groupId) = lastResp.req.id
              /\ InDay(e, lastResp.req.date.day))
    /\ (lastResp.kind = "completion" /\ lastResp.ops = 4 /\ ~lastResp.failed
        /\ lastResp.req.date.form = "iso") =>
          (lastResp.status = 200 <=>
              \A k \in DOMAIN groupHabitEntries :
                  ~(/\ toHexString(groupHabitEntries[k].groupId) = lastResp.req.id
                    /\ InDay(groupHabitEntries[k], lastResp.req.date.day)))

\* A day query answered an entry at the last millisecond of the day and left
\* out a stored entry at the first millisecond of the next day.
C16_Witness ==
    /\ lastResp.kind = "userEntries"
    /\ lastResp.status = 200
    /\ \E k \in DOMAIN lastResp.body :
          lastResp.body[k].date = lastResp.req.date.day * DayMs + (DayMs - 1)
    /\ \E k \in DOMAIN userHabitEntries :
          userHabitEntries[k].date = (lastResp.req.date.day + 1) * DayMs

\* C14: a logout is acknowledged with success, issues no storage operation
\* and changes neither a collection nor any other state of the server.
C14_LogoutFrame ==
    /\ [](lastResp.kind = "logout" => (lastResp.status = 200 /\ lastResp.ops = 0))
    /\ [][(lastResp' # lastResp /\ lastResp'.kind = "logout") =>
              UNCHANGED <<phase, db, now, store, pending, tokens>>]_vars

\* A logout was answered while users are stored and a token is held.
C14_Witness == lastResp.kind = "logout" /\ users # <<>> /\ tokens # {}

\* C15: the completion summary for a well-formed groupId that no stored group
\* has is answered 404 after the one group lookup, with no further query.
C15_NoGroup404 ==
    /\ (/\ lastResp.kind = "completion"
        /\ ~lastResp.failed
        /\ lastResp.req.id \notin BadIdTexts
        /\ \A k \in DOMAIN groups : toHexString(groups[k]._id) # lastResp.req.id) =>
            lastResp.status = 404 /\ lastResp.ops = 1
    /\ (lastResp.kind = "completion" /\ lastResp.status = 404) => lastResp.ops = 1

\* The summary of a missing group was asked while another group is stored.
C15_Witness ==
    /\ lastResp.kind = "completion"
    /\ lastResp.status = 404
    /\ groups # <<>>

\* The fields a stored document of each collection has when its handler
\* builds it from named fields only.
UserFields == {"_id", "username", "email", "password", "createdAt"}
GroupFields == {"_id", "name", "description", "ownerId", "memberIds", "createdAt"}
UserEntryFields == {"_id", "habitId", "userId", "date", "status", "notes"}
GroupEntryFields == {"_id", "habitId", "groupId", "date", "checkedBy", "notes"}

\* The fields of a body that the handler of that kind of request names.
NamedFields(kind) ==
    CASE kind = "habit" -> {"title", "createdBy", "assignedTo", "schedule", "createdAt"}
      [] kind = "group" -> GroupFields
      [] kind = "userEntry" -> UserEntryFields
      [] kind = "groupEntry" -> GroupEntryFields

CollectionOf(kind) ==
    CASE kind = "habit" -> habits
      [] kind = "group" -> groups
      [] kind = "userEntry" -> userHabitEntries
      [] kind = "groupEntry" -> groupHabitEntries

\* The document stored by the creation that was answered last carries every
\* body field its handler does not name, with the value the client sent.
ExtrasStored ==
    \A f \in DOMAIN lastResp.req.body \ NamedFields(lastResp.kind) :
        \E k \in DOMAIN CollectionOf(lastResp.kind) :
            LET d == CollectionOf(lastResp.kind)[k]
            IN /\ d._id = lastResp.body.insertedId
               /\ f \in DOMAIN d
               /\ d[f] = lastResp.req.body[f]

\* C17 as stated: a stored user has exactly username, email, password and
\* createdAt, and every other creation route stores the fields it does not
\* name.
C17_Original ==
    /\ \A k \in DOMAIN users : DOMAIN users[k] = UserFields
    /\ (lastResp.kind \in {"habit", "group", "userEntry", "groupEntry"}
        /\ lastResp.status = 201) => ExtrasStored

\* C17: a stored user, group, user habit entry and group habit entry has
\* exactly the fields its handler names, so a field the handler does not name
\* is never stored; habit creation alone stores the fields it does not name,
\* with the values the client sent.
C17_AllowLists ==
    /\ \A k \in DOMAIN users : DOMAIN users[k] = UserFields
    /\ \A k \in DOMAIN groups : DOMAIN groups[k] = GroupFields
    /\ \A k \in DOMAIN userHabitEntries : DOMAIN userHabitEntries[k] = UserEntryFields
    /\ \A k \in DOMAIN groupHabitEntries :
          DOMAIN groupHabitEntries[k] = GroupEntryFields
    /\ (lastResp.kind = "habit" /\ lastResp.status = 201) => ExtrasStored

\* A group entry sent with an unnamed field was created after a user, a group
\* and a user entry were, each sent with that field, and a habit stored it.
C17_Witness ==
    /\ lastResp.kind = "groupEntry"
    /\ lastResp.status = 201
    /\ "nickname" \in DOMAIN lastResp.req.body
    /\ users # <<>> /\ groups # <<>> /\ userHabitEntries # <<>>
    /\ \E k \in DOMAIN habits : "nickname" \in DOMAIN habits[k]

\* C18: a request answered 400 issued no storage operation: validation
\* answers before the store is read or written.
C18_No400AfterStorage == lastResp.status = 400 => lastResp.ops = 0

\* A sequence that begins with another.
Prefix(a, b) == Len(a) <= Len(b) /\ SubSeq(b, 1, Len(a)) = a

\* The number of stored documents.
Total ==
    Len(users) + Len(groups) + Len(habits) + Len(userHabitEntries)
        + Len(groupHabitEntries)

\* The identifier a response reports as inserted, 0 when it reports none.
CreatedId(resp) == IF resp.status = 201 THEN resp.body.insertedId ELSE 0

\* The collection a creation request of each kind writes.
CreatedIn(st, kind) ==
    CASE kind = "signup" -> st[1]
      [] kind = "group" -> st[2]
      [] kind = "habit" -> st[3]
      [] kind = "userEntry" -> st[4]
      [] kind = "groupEntry" -> st[5]

\* C19: every stored document stays stored and unmodified; a step adds at
\* most one document to one collection, and it adds one exactly when it
\* answers a creation request with 201; every other step leaves the five
\* collections unchanged.
C19_AppendOnly ==
    [][/\ Prefix(users, users')
       /\ Prefix(groups, groups')
       /\ Prefix(habits, habits')
       /\ Prefix(userHabitEntries, userHabitEntries')
       /\ Prefix(groupHabitEntries, groupHabitEntries')
       /\ Total' <= Total + 1
       /\ (Total' = Total + 1) <=>
              (/\ lastResp'.status = 201
               /\ CreatedId(lastResp') # CreatedId(lastResp)
               /\ \E k \in DOMAIN CreatedIn(store', lastResp'.kind) :
                      /\ k \notin DOMAIN CreatedIn(store, lastResp'.kind)
                      /\ CreatedIn(store', lastResp'.kind)[k]._id = CreatedId(lastResp'))
       /\ (Total' = Total) => store' = store]_vars

\* Every collection holds a document and the last request, a read, was
\* answered.
C19_Witness ==
    /\ users # <<>> /\ groups # <<>> /\ habits # <<>>
    /\ Len(userHabitEntries) > 1 /\ groupHabitEntries # <<>>
    /\ lastResp.kind = "userEntries"
    /\ lastResp.status = 200

\* The members and the habit count that a completion summary reports.
SummaryMembers == {lastResp.body[k]._id : k \in DOMAIN lastResp.body}
SummaryTotals == {lastResp.body[k].totalGroupHabits : k \in DOMAIN lastResp.body}

\* The states of the store between the first query of the summary answered
\* last and its response.
InstantsOfRequest == lastResp.req.seen \cup {Instant(ObjectId(lastResp.req.id))}

\* C20: the completion summary reads the store at four separate instants:
\* the members it reports and the habit count it reports were each true of
\* the store at some instant of the request, though not always at the same
\* one (C20_Witness).
C20_EachValueObserved ==
    (lastResp.kind = "completion" /\ lastResp.status = 200) =>
        /\ \E s \in InstantsOfRequest : s.members = SummaryMembers
        /\ \A t \in SummaryTotals : \E s \in InstantsOfRequest : s.total = t

\* A summary reports members and a habit count that were true of the store at
\* no single instant of the request.
C20_Witness ==
    /\ lastResp.kind = "completion"
    /\ lastResp.status = 200
    /\ lastResp.body # <<>>
    /\ \A s \in InstantsOfRequest :
          ~(s.members = SummaryMembers /\ s.total \in SummaryTotals)

\* C21: after SIGINT the process exits only once the shared connection is
\* closed, whatever requests are still in flight (they are not waited for);
\* after the exit no request is answered.
C21_CloseBeforeExit ==
    /\ [][phase = "closing" => phase' \in {"closing", "closed"}]_vars
    /\ [][(phase' = "exited" /\ phase \in {"listening", "closing", "closed"}) =>
              phase = "closed"]_vars
    /\ [][phase = "exited" => (lastResp' = lastResp /\ pending' = pending)]_vars

\* The process has exited after SIGINT: one request in flight was answered
\* with a storage failure once the connection was closed, and another is
\* left without a response.
C21_Witness ==
    /\ phase = "exited"
    /\ pending # <<>>
    /\ lastResp.failed
    /\ lastResp.status = 500

\* C22: logout revokes nothing: the status check answered next after a
\* logout, for a token a login issued that is unexpired and whose user is
\* stored, answers 200 with that user, as it does with no logout before it.
C22_LogoutKeepsTokens ==
    [][(/\ lastResp.kind = "logout"
        /\ lastResp'.kind = "status"
        /\ ~lastResp'.failed
        /\ Len(lastResp'.req.header) = 2
        /\ \E t \in tokens :
              /\ lastResp'.req.header[2] = t.tok
              /\ TokenGood(t.tok, lastResp'.req.at)
              /\ UserOfToken(t.tok) # {}) =>
            /\ lastResp'.status = 200
            /\ lastResp'.body.isAuthenticated
            /\ toHexString(lastResp'.body.user._id) = lastResp'.req.header[2].id]_vars

\* A logout was answered while a client holds a token that is unexpired and
\* whose user is stored: the status check that follows carries that token.
C22_Witness ==
    /\ lastResp.kind = "logout"
    /\ \E t \in tokens : TokenGood(t.tok, now) /\ UserOfToken(t.tok) # {}

\* The user's entries whose habitId is the _id of a stored habit.
EntriesOfStoredHabits(userObjectId) ==
    {i \in DOMAIN userHabitEntries :
        /\ userHabitEntries[i].userId = userObjectId
        /\ \E k \in DOMAIN habits : habits[k]._id = userHabitEntries[i].habitId}

\* C23: the most-logged query ignores the entries whose habitId no stored
\* habit has: it answers 404 exactly when the user has no entry of a stored
\* habit, whatever other entries the user has, and else a stored habit that
\* no stored habit beats in number of entries, whatever the number of entries
\* of a habit that is not stored.
C23_UnknownHabitsDropped ==
    (lastResp.kind = "mostLogged" /\ lastResp.status \in {200, 404}) =>
        LET user == ObjectId(lastResp.req.id)
        IN /\ lastResp.status = 404 <=> EntriesOfStoredHabits(user) = {}
           /\ lastResp.status = 200 =>
                 /\ \E k \in DOMAIN habits : habits[k]._id = lastResp.body._id
                 /\ lastResp.body.completionCount =
                        Cardinality({i \in EntriesOfStoredHabits(user) :
                            userHabitEntries[i].habitId = lastResp.body._id})
                 /\ \A k \in DOMAIN habits :
                        Count(user, habits[k]._id) <= lastResp.body.completionCount

\* The query answered 404 for a user who has entries, none of a stored habit,
\* while a habit is stored.
C23_Witness ==
    /\ lastResp.kind = "mostLogged"
    /\ lastResp.status = 404
    /\ habits # <<>>
    /\ \E i \in DOMAIN userHabitEntries :
          userHabitEntries[i].userId = ObjectId(lastResp.req.id)

\* The query answered a stored habit while a habit that is not stored has
\* more entries of the user.
C23_WitnessOutranked ==
    /\ lastResp.kind = "mostLogged"
    /\ lastResp.status = 200
    /\ \E i \in DOMAIN userHabitEntries :
          LET h == userHabitEntries[i].habitId
          IN /\ \A k \in DOMAIN habits : habits[k]._id # h
             /\ Count(ObjectId(lastResp.req.id), h) > lastResp.body.completionCount

\* C24: every handler run ends having sent exactly one response, on every
\* path through its guards, its try block and its catch block, and a handler
\* still running has sent at most one.
C24_ExactlyOneResponse ==
    /\ lastResp.kind = "path" => Len(lastResp.body) = 1
    /\ \A i \in DOMAIN pending :
          pending[i].kind = "path" => Len(pending[i].sent) <= 1

\* The token check's callback reached its catch block after the lookup
\* raised, and that 500 is the only response of the request.
C24_Witness ==
    /\ lastResp.kind = "path"
    /\ lastResp.req.route = "authStatus"
    /\ lastResp.req.line = 642
    /\ lastResp.body = <<500>>

\* A group creation answered 409 from its catch block, a completion summary
\* answered 200 at the end of its try block.
C24_WitnessConflict ==
    /\ lastResp.kind = "path"
    /\ lastResp.req.route = "createGroup"
    /\ lastResp.body = <<409>>

C24_WitnessSuccess ==
    /\ lastResp.kind = "path"
    /\ lastResp.req.route = "completion"
    /\ lastResp.body = <<200>>


====
